---- MODULE Spec2Model ----
(***************************************************************************)
(* Entry ingestion, extraction pipeline, background dispatcher and graph   *)
(* store of the memory-graph service.                                      *)
(*                                                                         *)
(* Each request r of Reqs is one call into the service: through the HTTP   *)
(* route POST /graph/entries, through EntryIngestionService.ingest_entry   *)
(* directly, or through ExtractionTaskDispatcher.enqueue directly.  A      *)
(* request is a sequential thread; the threads of different requests and   *)
(* of their background tasks interleave at the provider calls and at the   *)
(* store operations.                                                       *)
(*                                                                         *)
(* Spec is the service with its requests.  RelationSpec and EntitySpec are *)
(* the two repositories called one call after another by a client of      *)
(* their own, with the arguments the service never passes: relation types *)
(* of any spelling, endpoints the store does not hold, entities upserted   *)
(* again with other labels and fields, properties that are no JSON.        *)
(* GraphSpec is the store under upsert, create, delete and the two bulk    *)
(* operations.  PersistSpec is _persist_extraction run for several        *)
(* entries at the same time, a step per query.                             *)
(*                                                                         *)
(* ConstructSpec is the constructor of Entity with its validators,         *)
(* ProviderSpec one call of extract on the local or on a cloud provider,   *)
(* RouterSpec the route's handling of one request's metadata: each starts  *)
(* from the arguments of one call.  RegistrySpec is the provider registry  *)
(* called by several threads, a step per statement of a lookup.            *)
(* OllamaSpec is one call of extract on the self-hosted provider, a step  *)
(* per HTTP attempt; OllamaFairSpec adds that the call keeps running.      *)
(***************************************************************************)
EXTENDS Naturals, Integers, Sequences, FiniteSets, TLC

\* ------------------------------------------------------------------ bounds

\* Number of requests (each with its own thread and background task).
NReq == 1
\* Number of observers registered with the pipeline.
NObs == 2

Reqs == 1..NReq
Observers == 1..NObs

\* Number of threads that call the provider registry, and the number of
\* calls they make between them.
NThreads == 2
MaxCalls == 3

Threads == 1..NThreads

VARIABLES
    extraction_allow_fallback, \* Settings.extraction_allow_fallback
    allow_fallback,            \* ExtractionPipeline.allow_fallback
    require_sync,              \* EntryIngestionService.require_sync
    req,                       \* per request: the call's arguments
    pc,                        \* per request: position of its thread
    ctx,                       \* per request: who called pipeline.run
    resp,                      \* per request: what the entry point returned
    http,                      \* per request: HTTP status sent (0: none)
    result,                    \* per request: what pipeline.run returned
    err,                       \* per request: the exception in flight
    tasks,                     \* per request: its BackgroundTasks queue
    pending,                   \* per request: relations bulk_create has yet to create
    log,                       \* per request: history of calls and returns
    nodes,                     \* store: id -> node
    edges,                     \* store: set of typed edges
    call,                      \* repository client: its last call and what came of it
    given,                     \* repository client: id -> system labels ever upserted
    extraction_provider,       \* Settings.extraction_provider
    instances,                 \* ProviderRegistry._instances: key -> provider
    built,                     \* the providers constructed so far, in order
    thread,                    \* per registry caller: position in its call
    handed                     \* the providers the registry has returned

vars == <<extraction_allow_fallback, allow_fallback, require_sync, req, pc, ctx,
          resp, http, result, err, tasks, pending, log, nodes, edges, call, given,
          extraction_provider, instances, built, thread, handed>>

\* The provider registry and its callers.
registryVars == <<extraction_provider, instances, built, thread, handed>>

\* The state of the service's requests, which a repository call made from
\* outside the service leaves alone.
serviceVars == <<extraction_allow_fallback, allow_fallback, require_sync, req, pc,
                 ctx, resp, http, result, err, tasks, pending, log>>

\* ------------------------------------------------------------ identifiers

\* Strings of the program (ids, names) are tagged triples, so that an id
\* and a name are comparable and never equal.
EntryId(r) == <<"id", r, 0>>
DerivedId(r, n) == <<"id", r, n>>
NameStr(n) == <<"name", 0, n>>
\* Entity.name = None
NoName == <<"none", 0, 0>>

\* -------------------------------------------------------- relation types

MENTIONS == <<"M", "E", "N", "T", "I", "O", "N", "S">>
KNOWS == <<"k", "n", "o", "w", "s">>
BAD_TYPE == <<"b", "a", "d", "-", "t", "y", "p", "e">>
MENTIONS_LOWER == <<"m", "e", "n", "t", "i", "o", "n", "s">>
MENTIONS_NEWLINE == <<"M", "E", "N", "T", "I", "O", "N", "S", "\n">>
FOO_DELETE_ALL == <<"F", "O", "O", ";", " ", "D", "E", "L", "E", "T", "E", " ", "A", "L", "L">>

LowerChars == <<"a", "b", "c", "d", "e", "f", "g", "h", "i", "j", "k", "l", "m",
                "n", "o", "p", "q", "r", "s", "t", "u", "v", "w", "x", "y", "z">>
UpperChars == <<"A", "B", "C", "D", "E", "F", "G", "H", "I", "J", "K", "L", "M",
                "N", "O", "P", "Q", "R", "S", "T", "U", "V", "W", "X", "Y", "Z">>
DigitChars == {"0", "1", "2", "3", "4", "5", "6", "7", "8", "9"}

Range(s) == {s[i] : i \in DOMAIN s}

\* str.upper(), character by character.
UpperChar(c) ==
    IF \E i \in DOMAIN LowerChars : LowerChars[i] = c
    THEN UpperChars[CHOOSE i \in DOMAIN LowerChars : LowerChars[i] = c]
    ELSE c

Upper(s) == [i \in DOMAIN s |-> UpperChar(s[i])]

\* RELATION_NAME_PATTERN.match(t) for ^[A-Z0-9_]+$ ; "\n" is the newline
\* character, which Python's $ accepts once at the very end.
PatternChars == Range(UpperChars) \cup DigitChars \cup {"_"}

RELATION_NAME_PATTERN(t) ==
    LET body == IF Len(t) > 0 /\ t[Len(t)] = "\n" THEN SubSeq(t, 1, Len(t) - 1) ELSE t
    IN  Len(body) > 0 /\ \A i \in DOMAIN body : body[i] \in PatternChars

\* ---------------------------------------------------------------- events

Ev(e, w, a) == [ev |-> e, who |-> w, arg |-> a]

\* Positions of the events named e in a log.
Pos(l, e) == {i \in DOMAIN l : l[i].ev = e}
Has(l, e) == Pos(l, e) # {}

\* ----------------------------------------------------- provider outcomes

ResultIds == {"empty", "local", "llm", "clash"}
PrimaryErrors == {"EPE_primary", "OTHER_primary"}
FallbackErrors == {"EPE_fallback", "OTHER_fallback"}

\* isinstance(exc, ExtractionProviderError)
IsExtractionProviderError(e) == e \in {"EPE_primary", "EPE_fallback"}

\* ------------------------------------------------------ nested entity fields

JSON_FIELDS == {"content", "attachments", "embedding", "metadata", "observations"}

\* A Python value inside a nested field: <<its type, what its text spells,
\* the value>>.  A str may spell plain text or the ISO / canonical form of a
\* datetime, UUID, enum member or URL.
PyStr(x) == <<"str", "text", x>>
PyFloat(x) == <<"float", "value", x>>
PyDatetime(x) == <<"datetime", "value", x>>
PyUUID(x) == <<"UUID", "value", x>>
PyEnum(x) == <<"Enum", "value", x>>
PyUrl(x) == <<"AnyUrl", "value", x>>

\* The types JSON has no value for.
NonJsonTypes == {"datetime", "UUID", "Enum", "AnyUrl"}

\* A place in a nested model: the type its schema declares ("Any" inside a
\* metadata dict) and the value in it.
Slot(type, v) == [type |-> type, v |-> v]

\* A nested field: None, a model, a list of models or a dict, with the
\* places of its values in order.
Nested(kind, slots) == [kind |-> kind, slots |-> slots]
PyNone == Nested("None", <<>>)

\* The field's default in Entity: None for content and embedding, an empty
\* list or dict for the others.
DefaultOf(field) ==
    CASE field \in {"content", "embedding"} -> PyNone
      [] field = "metadata" -> Nested("dict", <<>>)
      [] OTHER -> Nested("list", <<>>)

NoNested == [f \in JSON_FIELDS |-> DefaultOf(f)]

\* ContentBlock(body=request.text, format=request.format)
EntryContent == Nested("model", <<Slot("Enum", PyEnum("text")), Slot("str", PyStr("body"))>>)
\* request.metadata with the submitter's address
EntryMetadata == Nested("dict", <<Slot("Any", PyStr("submitted_by"))>>)
\* A dict that holds a datetime, and one that holds the ISO text of it.
DatedMetadata == Nested("dict", <<Slot("Any", PyDatetime("t1"))>>)
IsoMetadata == Nested("dict", <<Slot("Any", <<"str", "datetime", "t1">>)>>)
\* [Observation(id, text, created_at, confidence)]
SomeObservations ==
    Nested("list", <<Slot("UUID", PyUUID("o1")), Slot("str", PyStr("fact")),
                     Slot("datetime", PyDatetime("t1")), Slot("float", PyFloat("0.87"))>>)
\* [MediaAttachment(uri, media_type)]
SomeAttachments ==
    Nested("list", <<Slot("AnyUrl", PyUrl("u1")), Slot("str", PyStr("image/png"))>>)
\* EmbeddingVector(model, vector, created_at)
SomeEmbedding ==
    Nested("model", <<Slot("str", PyStr("nomic")), Slot("float", PyFloat("0.12")),
                      Slot("datetime", PyDatetime("t2"))>>)

\* model_dump(mode="json") of one value: what JSON cannot hold becomes the
\* str that spells it.
DumpJson(v) == IF v[1] \in NonJsonTypes THEN <<"str", v[1], v[3]>> ELSE v

\* A read that keeps what json.loads returned.
ValidateTyped_Kept(type, v) == v

\* model_validate of one value read from JSON against the declared type: a
\* str spelling a value of that type is parsed, anything else is kept.
ValidateTyped(type, v) ==
    IF type \in NonJsonTypes /\ v[1] = "str" /\ v[2] = type
    THEN <<type, "value", v[3]>>
    ELSE v

\* A node property: absent, the JSON text of a value, or a string that is no
\* JSON.
Absent == [kind |-> "absent", value |-> PyNone]
JsonText(value) == [kind |-> "json", value |-> value]
Garbage == [kind |-> "garbage", value |-> PyNone]

\* _serialize_entity, one field: json.dumps of the dumped value unless it is
\* None, which the store keeps no property for.
SerializeField(value) ==
    IF value.kind = "None" THEN Absent
    ELSE JsonText([value EXCEPT !.slots =
                      [i \in DOMAIN value.slots |->
                          Slot(value.slots[i].type, DumpJson(value.slots[i].v))]])

\* _serialize_entity: the nested fields of the payload.
SerializeEntity(e) == [f \in JSON_FIELDS |-> SerializeField(e.json[f])]

\* _node_to_entity, one field: json.loads of a non-empty str property, then
\* the model's validation; a missing property takes the field's default.
DecodeField(field, prop) ==
    IF prop.kind = "absent" THEN DefaultOf(field)
    ELSE [prop.value EXCEPT !.slots =
             [i \in DOMAIN prop.value.slots |->
                 Slot(prop.value.slots[i].type,
                      ValidateTyped(prop.value.slots[i].type, prop.value.slots[i].v))]]

\* _node_to_entity: json.loads raises JSONDecodeError on a property that is
\* no JSON; the warning is logged, the str stays in data and
\* Entity.model_validate raises on it.
ReadRaises(node) == \E f \in JSON_FIELDS : node.json[f].kind = "garbage"

EntityWith(id, name, sl, js) ==
    [id |-> id, name |-> name, system_labels |-> sl, json |-> js]

\* An entity with no nested field set.
Entity(id, name, sl) == EntityWith(id, name, sl, NoNested)

\* _node_to_entity of a node whose properties decode.
NodeToEntity(id, node) ==
    EntityWith(id, node.name, node.system_labels,
               [f \in JSON_FIELDS |-> DecodeField(f, node.json[f])])
Relation(s, t, ty) == [source |-> s, target |-> t, relationType |-> ty]

\* The ExtractionResult a provider returns for the entry of request r:
\*   empty: nothing found;
\*   local: the local provider's shape, the relation targets the entity id;
\*   llm:   a model provider's shape, relations name their endpoints;
\*   clash: a model's payload whose entity carries the entry's own id.
ResultOf(r, rid) ==
    CASE rid = "local" ->
           [entities |-> <<Entity(DerivedId(r, 1), NameStr(1), {"ENTITY", "PERSON"})>>,
            relations |-> <<Relation(EntryId(r), DerivedId(r, 1), MENTIONS)>>]
      [] rid = "llm" ->
           [entities |-> <<Entity(DerivedId(r, 1), NameStr(1), {"ENTITY", "PERSON"}),
                           Entity(DerivedId(r, 2), NameStr(2), {"ENTITY", "ORGANIZATION"})>>,
            relations |-> <<Relation(EntryId(r), NameStr(1), MENTIONS),
                            Relation(NameStr(1), NameStr(2), KNOWS),
                            Relation(EntryId(r), NameStr(2), BAD_TYPE)>>]
      [] rid = "clash" ->
           [entities |-> <<Entity(EntryId(r), NameStr(1), {"ENTITY", "PERSON"})>>,
            relations |-> <<Relation(EntryId(r), NameStr(1), MENTIONS)>>]
      [] OTHER -> [entities |-> <<>>, relations |-> <<>>]

\* ------------------------------------------------------------------ store

\* MERGE (e:Entity {id}) SET e = $entity, then one label per system label:
\* the properties are replaced, the graph labels only grow.
\* A query that creates a node on every call.
MergeCopies_Create(ns, id) == IF id \in DOMAIN ns THEN ns[id].copies + 1 ELSE 1

\* MERGE (e:Entity {id: $entity.id}): how many nodes carry the id afterwards;
\* a node is created only when none matches.
MergeCopies(ns, id) == IF id \in DOMAIN ns THEN ns[id].copies ELSE 1

\* A query that sets the node's labels to those of the payload.
MergeLabels_Replace(ns, e) == {"Entity"} \cup e.system_labels

\* FOREACH ... SET e:LABEL for each system label of the payload: labels are
\* added to those the node has.
MergeLabels(ns, e) ==
    (IF e.id \in DOMAIN ns THEN ns[e.id].glabels ELSE {"Entity"}) \cup e.system_labels

MergeNode(ns, e) ==
    LET node == [copies |-> MergeCopies(ns, e.id),
                 name |-> e.name, system_labels |-> e.system_labels,
                 json |-> SerializeEntity(e),
                 glabels |-> MergeLabels(ns, e)]
    IN  [i \in DOMAIN ns \cup {e.id} |-> IF i = e.id THEN node ELSE ns[i]]

RECURSIVE MergeAll(_, _)
MergeAll(ns, es) ==
    IF es = <<>> THEN ns ELSE MergeAll(MergeNode(ns, Head(es)), Tail(es))

\* EntityRepository.upsert: the store after the query.
Upsert(ns, e) == MergeNode(ns, e)

\* EntityRepository.bulk_create: the store after the query.
BulkCreateEntities(ns, es) == MergeAll(ns, es)

\* A bulk_create that re-reads its nodes by name: of the nodes that carry
\* the name, the one of the earliest entry.
SavedEntities_ByName(ns, es) ==
    [i \in DOMAIN es |->
        LET same == {id \in DOMAIN ns : ns[id].name = es[i].name}
            first == CHOOSE id \in same : \A o \in same : id[2] <= o[2]
        IN  NodeToEntity(first, ns[first])]

\* What bulk_create returns: the nodes re-read, in order.
SavedEntities(ns, es) == [i \in DOMAIN es |-> NodeToEntity(es[i].id, ns[es[i].id])]

\* A create that asks the store whatever the type.
CreateRaises_NoGate(rel) == FALSE

\* RelationRepository.create: "raise" on a type the pattern rejects, else the
\* MATCH/MATCH/MERGE query, which writes an edge only when both nodes exist.
CreateRaises(rel) == ~RELATION_NAME_PATTERN(Upper(rel.relationType))

\* A create that interpolates the type as it was given.
CreateToken_Raw(rel) == rel.relationType

\* create: the token interpolated into the query string.
CreateToken(rel) == Upper(rel.relationType)

\* The relationship type the store reads in "[r:%s]": the name, without the
\* line break that may follow it.
EdgeTypeName(token) ==
    IF Len(token) > 0 /\ token[Len(token)] = "\n" THEN SubSeq(token, 1, Len(token) - 1)
    ELSE token

\* The edge create's MERGE asks for.
EdgeOf(rel) ==
    [source |-> rel.source, type |-> EdgeTypeName(CreateToken(rel)), target |-> rel.target]

\* A create that merges the edge whether or not its two nodes match.
CreateEdges_Unmatched(ns, es, rel) == es \cup {EdgeOf(rel)}

\* create's MATCH, MATCH, MERGE: the edges after the query.
CreateEdges(ns, es, rel) ==
    IF rel.source \in DOMAIN ns /\ rel.target \in DOMAIN ns
    THEN es \cup {EdgeOf(rel)}
    ELSE es

\* _persist_extraction: name_to_id of the saved entities (a later entity of
\* the same name wins) and _resolve.
RECURSIVE NameToId(_)
NameToId(saved) ==
    IF saved = <<>> THEN <<>>
    ELSE LET rest == NameToId(SubSeq(saved, 1, Len(saved) - 1))
             last == saved[Len(saved)]
         IN  IF last.name = NoName THEN rest
             ELSE [n \in DOMAIN rest \cup {last.name} |->
                      IF n = last.name THEN last.id ELSE rest[n]]

\* A persistence that hands the endpoints over as the provider wrote them.
Resolve_Verbatim(map, endpoint) == endpoint

Resolve(map, endpoint) == IF endpoint \in DOMAIN map THEN map[endpoint] ELSE endpoint

MappedRelations(saved, rels) ==
    LET map == NameToId(saved)
    IN  [i \in DOMAIN rels |->
            Relation(Resolve(map, rels[i].source), Resolve(map, rels[i].target),
                     rels[i].relationType)]

\* ----------------------------------------------------------- construction

\* ExtractionPipeline.__init__: the constructor's argument, or the setting.
PipelineAllowFallback(param, setting) ==
    IF param = "None" THEN setting ELSE param = "True"

\* EntryIngestionService.__init__
RequireSync(setting) == ~setting

\* No repository call made yet.
NoCall == [op |-> "none", state |-> "returned", key |-> NoName, args |-> <<>>,
          mapped |-> <<>>, raised |-> <<>>, ret |-> <<>>, tokens |-> <<>>, map |-> <<>>]

\* Provider names, as settings spell them.
LOCAL_PROVIDER == <<"l", "o", "c", "a", "l">>
OLLAMA == <<"o", "l", "l", "a", "m", "a">>
OPENAI == <<"o", "p", "e", "n", "a", "i">>
ANTHROPIC == <<"a", "n", "t", "h", "r", "o", "p", "i", "c">>
OPENAI_MIXED == <<"O", "p", "e", "n", "A", "I">>
BOGUS == <<"b", "o", "g", "u", "s">>

\* A thread that is in no call of the registry.
IdleThread == [pc |-> "idle", op |-> "none", key |-> <<>>, made |-> 0, raced |-> FALSE]

\* ProviderRegistry.__init__ under the configured provider name: no
\* instance yet.
RegistryNew(name) ==
    /\ extraction_provider = name
    /\ instances = <<>>
    /\ built = <<>>
    /\ thread = [t \in Threads |-> IdleThread]
    /\ handed = {}

NoReq == [via |-> "none", force_sync |-> FALSE, scheduler |-> FALSE,
          on_complete |-> "none"]

\* The service as constructed, no request made.
ServiceInit ==
    /\ extraction_allow_fallback \in BOOLEAN
    /\ \E param \in {"None", "True", "False"} :
          allow_fallback = PipelineAllowFallback(param, extraction_allow_fallback)
    /\ require_sync = RequireSync(extraction_allow_fallback)
    /\ req = [r \in Reqs |-> NoReq]
    /\ pc = [r \in Reqs |-> "idle"]
    /\ ctx = [r \in Reqs |-> "none"]
    /\ resp = [r \in Reqs |-> "none"]
    /\ http = [r \in Reqs |-> 0]
    /\ result = [r \in Reqs |-> "none"]
    /\ err = [r \in Reqs |-> "none"]
    /\ tasks = [r \in Reqs |-> <<>>]
    /\ pending = [r \in Reqs |-> <<>>]
    /\ log = [r \in Reqs |-> <<>>]

Init ==
    /\ ServiceInit
    /\ RegistryNew(LOCAL_PROVIDER)
    /\ nodes = <<>>
    /\ edges = {}
    /\ call = NoCall
    /\ given = <<>>

\* ------------------------------------------------------- ingestion service

\* _build_entry_entity: the ENTRY entity of request r (ENTITY is prepended
\* by the model's validator).
EntryEntity(r) ==
    EntityWith(EntryId(r), NameStr(0), {"ENTITY", "ENTRY"},
               [NoNested EXCEPT !["content"] = EntryContent, !["metadata"] = EntryMetadata])

\* A service that leaves the entry's upsert to the persistence callback.
IngestUpsert_Skipped(ns, r) == ns

\* ingest_entry: entity_repository.upsert(entry_entity)
IngestUpsert(ns, r) == Upsert(ns, EntryEntity(r))

\* A mode decision that looks at the request's flag alone.
RunSync_ForceOnly(force_sync) == force_sync

\* ingest_entry: run_sync = force_sync or self.require_sync
RunSync(force_sync) == force_sync \/ require_sync

\* A dispatcher that ignores the scheduler and always runs in the caller.
EnqueueDefers_Never(scheduler) == FALSE

\* enqueue: "if background_tasks:" the task is added, else the pipeline runs
\* in the caller.
EnqueueDefers(scheduler) == scheduler

\* A route that has no handler for the provider's error: any exception is
\* the framework's 500.
HttpStatus_NoHandler(via, outcome) ==
    IF via # "http" THEN 0
    ELSE IF outcome \in {"queued", "processed"} THEN 202
    ELSE 500

\* The route's answer to what ingest_entry did: 202 on a return, 502 on an
\* ExtractionProviderError, 500 on any other exception.
HttpStatus(via, outcome) ==
    IF via # "http" THEN 0
    ELSE IF outcome \in {"queued", "processed"} THEN 202
    ELSE IF IsExtractionProviderError(outcome) THEN 502
    ELSE 500

Task(r, oc) == [fn |-> "_run_pipeline_safe", entry |-> EntryId(r), on_complete |-> oc]

\* A dispatcher that schedules the pipeline twice.
AddTask_Twice(q, t) == Append(Append(q, t), t)

\* enqueue: background_tasks.add_task(self._run_pipeline_safe, ...)
AddTask(q, t) == Append(q, t)

\* ingest_entry up to its first provider call or, deferred with a scheduler,
\* up to its return.
IngestEntry(r, via, force_sync, scheduler) ==
    /\ pc[r] = "idle"
    /\ req' = [req EXCEPT ![r] = [via |-> via, force_sync |-> force_sync,
                                  scheduler |-> scheduler, on_complete |-> "persist"]]
    /\ nodes' = IngestUpsert(nodes, r)
    /\ IF RunSync(force_sync)
       THEN /\ ctx' = [ctx EXCEPT ![r] = "service"]
            /\ pc' = [pc EXCEPT ![r] = "primary"]
            /\ log' = [log EXCEPT ![r] = @ \o <<Ev("upsert_entry", 0, "ok")>>]
            /\ UNCHANGED <<tasks, resp, http>>
       ELSE IF EnqueueDefers(scheduler)
       THEN /\ tasks' = [tasks EXCEPT ![r] = AddTask(@, Task(r, "persist"))]
            /\ resp' = [resp EXCEPT ![r] = "queued"]
            /\ http' = [http EXCEPT ![r] = HttpStatus(via, "queued")]
            /\ pc' = [pc EXCEPT ![r] = "queued"]
            /\ log' = [log EXCEPT ![r] = @ \o <<Ev("upsert_entry", 0, "ok"),
                                                Ev("enqueue", 0, "persist"),
                                                Ev("add_task", 0, "persist"),
                                                Ev("return", 0, "queued")>>]
            /\ UNCHANGED ctx
       ELSE /\ ctx' = [ctx EXCEPT ![r] = "dispatch_inline"]
            /\ pc' = [pc EXCEPT ![r] = "primary"]
            /\ log' = [log EXCEPT ![r] = @ \o <<Ev("upsert_entry", 0, "ok"),
                                                Ev("enqueue", 0, "persist")>>]
            /\ UNCHANGED <<tasks, resp, http>>
    /\ UNCHANGED <<registryVars, call, given, extraction_allow_fallback, allow_fallback, require_sync,
                   result, err, pending, edges>>

\* POST /graph/entries: the route passes its BackgroundTasks and
\* force_sync = request.process_synchronously.
PostEntries(r) ==
    \E process_synchronously \in BOOLEAN :
        IngestEntry(r, "http", process_synchronously, TRUE)

\* ingest_entry called without the route (a CLI, a test), with or without a
\* BackgroundTasks object.
DirectIngest(r) ==
    \E force_sync \in BOOLEAN, scheduler \in BOOLEAN :
        IngestEntry(r, "direct", force_sync, scheduler)

\* ------------------------------------------------------------- dispatcher

\* ExtractionTaskDispatcher.enqueue called on its own, with or without a
\* scheduler and a completion callback.
DirectEnqueue(r) ==
    /\ pc[r] = "idle"
    /\ \E scheduler \in BOOLEAN, oc \in {"none", "callback"} :
        /\ req' = [req EXCEPT ![r] = [via |-> "enqueue", force_sync |-> FALSE,
                                      scheduler |-> scheduler, on_complete |-> oc]]
        /\ IF EnqueueDefers(scheduler)
           THEN /\ tasks' = [tasks EXCEPT ![r] = AddTask(@, Task(r, oc))]
                /\ resp' = [resp EXCEPT ![r] = "enqueued"]
                /\ pc' = [pc EXCEPT ![r] = "queued"]
                /\ log' = [log EXCEPT ![r] = @ \o <<Ev("enqueue", 0, oc),
                                                    Ev("add_task", 0, oc),
                                                    Ev("return", 0, "enqueued")>>]
                /\ UNCHANGED ctx
           ELSE /\ ctx' = [ctx EXCEPT ![r] = "dispatch_inline"]
                /\ pc' = [pc EXCEPT ![r] = "primary"]
                /\ log' = [log EXCEPT ![r] = @ \o <<Ev("enqueue", 0, oc)>>]
                /\ UNCHANGED <<tasks, resp>>
    /\ UNCHANGED <<registryVars, call, given, extraction_allow_fallback, allow_fallback, require_sync, http,
                   result, err, pending, nodes, edges>>

\* The scheduler runs the queued task once the caller has its answer.
RunTask(r) ==
    /\ pc[r] = "queued"
    /\ tasks[r] # <<>>
    /\ tasks' = [tasks EXCEPT ![r] = Tail(@)]
    /\ ctx' = [ctx EXCEPT ![r] = "dispatch_bg"]
    /\ pc' = [pc EXCEPT ![r] = "primary"]
    /\ log' = [log EXCEPT ![r] = @ \o <<Ev("task_start", 0, Head(tasks[r]).on_complete)>>]
    /\ UNCHANGED <<registryVars, call, given, extraction_allow_fallback, allow_fallback, require_sync, req, resp,
                   http, result, err, pending, nodes, edges>>

\* --------------------------------------------------------------- pipeline

\* _notify_success / _notify_failure: every observer, in order.
NotifySuccess(rid) == [i \in Observers |-> Ev("on_success", i, rid)]
NotifyFailure(e) == [i \in Observers |-> Ev("on_failure", i, e)]

\* A pipeline that falls back on a provider error whatever the policy.
OnPrimaryError_PolicyIgnored(e) ==
    IF IsExtractionProviderError(e) THEN "fallback" ELSE "raise"

\* A pipeline that falls back on any exception of the primary provider.
OnPrimaryError_AnyException(e) ==
    IF ~allow_fallback THEN "raise" ELSE "fallback"

\* run, a primary provider that raised e: "fallback" or "raise".
OnPrimaryError(e) ==
    IF IsExtractionProviderError(e)
    THEN IF ~allow_fallback THEN "raise" ELSE "fallback"
    ELSE "raise"

\* run, the ways out: notify, then return or re-raise.
PrimarySuccessEvents(rid) == NotifySuccess(rid) \o <<Ev("run_return", 0, rid)>>
\* A run whose guard rail catches what the provider-error handler re-raised
\* and tells the observers again.
PrimaryFailureEvents_Twice(e) ==
    NotifyFailure(e) \o NotifyFailure(e) \o <<Ev("run_raise", 0, e)>>

PrimaryFailureEvents(e) == NotifyFailure(e) \o <<Ev("run_raise", 0, e)>>
\* A fallback path that returns without telling the observers.
FallbackSuccessEvents_Silent(rid) == <<Ev("run_return", 0, rid)>>

FallbackSuccessEvents(rid) == NotifySuccess(rid) \o <<Ev("run_return", 0, rid)>>
\* A fallback path that reports the primary provider's error.
FallbackFailureEvents_PrimaryError(e) ==
    NotifyFailure("EPE_primary") \o <<Ev("run_raise", 0, "EPE_primary")>>

FallbackFailureEvents(e) == NotifyFailure(e) \o <<Ev("run_raise", 0, e)>>

\* provider.extract: the call and how it ended.
ExtractEvents(role, out) ==
    <<Ev("extract", 0, role),
      Ev(IF out \in ResultIds THEN "provider_returned" ELSE "provider_raised", 0, out)>>

\* run: provider.extract on the primary provider and what follows it up to
\* the fallback's call or the end of run.
PrimaryExtract(r) ==
    /\ pc[r] = "primary"
    /\ \E out \in ResultIds \cup PrimaryErrors :
        LET lg == log[r] \o ExtractEvents("primary", out)
        IN  IF out \in ResultIds
            THEN /\ result' = [result EXCEPT ![r] = out]
                 /\ pc' = [pc EXCEPT ![r] = "ran"]
                 /\ log' = [log EXCEPT ![r] = lg \o PrimarySuccessEvents(out)]
                 /\ err' = err
            ELSE IF OnPrimaryError(out) = "raise"
            THEN /\ err' = [err EXCEPT ![r] = out]
                 /\ pc' = [pc EXCEPT ![r] = "raised"]
                 /\ log' = [log EXCEPT ![r] = lg \o PrimaryFailureEvents(out)]
                 /\ result' = result
            ELSE /\ pc' = [pc EXCEPT ![r] = "fallback"]
                 /\ log' = [log EXCEPT ![r] = lg]
                 /\ UNCHANGED <<result, err>>
    /\ UNCHANGED <<registryVars, call, given, extraction_allow_fallback, allow_fallback, require_sync, req, ctx,
                   resp, http, tasks, pending, nodes, edges>>

\* run: fallback.extract on the local provider and the end of run.
FallbackExtract(r) ==
    /\ pc[r] = "fallback"
    /\ \E out \in ResultIds \cup FallbackErrors :
        LET lg == log[r] \o ExtractEvents("fallback", out)
        IN  IF out \in ResultIds
            THEN /\ result' = [result EXCEPT ![r] = out]
                 /\ pc' = [pc EXCEPT ![r] = "ran"]
                 /\ log' = [log EXCEPT ![r] = lg \o FallbackSuccessEvents(out)]
                 /\ err' = err
            ELSE /\ err' = [err EXCEPT ![r] = out]
                 /\ pc' = [pc EXCEPT ![r] = "raised"]
                 /\ log' = [log EXCEPT ![r] = lg \o FallbackFailureEvents(out)]
                 /\ result' = result
    /\ UNCHANGED <<registryVars, call, given, extraction_allow_fallback, allow_fallback, require_sync, req, ctx,
                   resp, http, tasks, pending, nodes, edges>>

\* -------------------------------------------------------- ways out of a call

\* The thread of r leaves its entry point, returning (exc = "none") or
\* raising exc, with lg its history so far: ingest_entry returns "processed"
\* after an inline run and "queued" after enqueue, enqueue returns None, a
\* scheduled task just ends.
Exit(r, lg, exc) ==
    /\ pc' = [pc EXCEPT ![r] = "done"]
    /\ IF ctx[r] = "dispatch_bg"
       THEN /\ log' = [log EXCEPT ![r] =
                          lg \o <<Ev(IF exc = "none" THEN "task_done" ELSE "task_crash",
                                     0, exc)>>]
            /\ UNCHANGED <<resp, http>>
       ELSE LET status == IF exc # "none" THEN exc
                          ELSE IF ctx[r] = "service" THEN "processed"
                          ELSE IF req[r].via = "enqueue" THEN "enqueued"
                          ELSE "queued"
            IN  /\ resp' = [resp EXCEPT ![r] = status]
                /\ http' = [http EXCEPT ![r] = HttpStatus(req[r].via, status)]
                /\ log' = [log EXCEPT ![r] =
                              lg \o <<Ev(IF exc = "none" THEN "return" ELSE "raise",
                                         0, status)>>]

\* ---------------------------------------------- after pipeline.run returned

\* ingest_entry, inline: self._persist_extraction(result) is called.
ServiceAfterRun(r) ==
    /\ pc[r] = "ran"
    /\ ctx[r] = "service"
    /\ pc' = [pc EXCEPT ![r] = "persist_entities"]
    /\ log' = [log EXCEPT ![r] = @ \o <<Ev("persist", 0, result[r])>>]
    /\ UNCHANGED <<registryVars, call, given, extraction_allow_fallback, allow_fallback, require_sync, req, ctx,
                   resp, http, result, err, tasks, pending, nodes, edges>>

\* A dispatcher that drops the completion callback.
OnCompleteProvided_Never(oc) == FALSE

\* _run_pipeline_safe: "if on_complete:"
OnCompleteProvided(oc) == oc # "none"

\* _run_pipeline_safe after run returned: on_complete(result) when given.  A
\* callback other than _persist_extraction returns or raises.
SafeAfterRun(r) ==
    /\ pc[r] = "ran"
    /\ ctx[r] \in {"dispatch_inline", "dispatch_bg"}
    /\ IF ~OnCompleteProvided(req[r].on_complete)
       THEN /\ Exit(r, log[r], "none")
            /\ err' = err
       ELSE LET lg == log[r] \o <<Ev("on_complete", 0, result[r])>>
            IN  IF req[r].on_complete = "persist"
                THEN /\ pc' = [pc EXCEPT ![r] = "persist_entities"]
                     /\ log' = [log EXCEPT ![r] = lg]
                     /\ UNCHANGED <<resp, http, err>>
                ELSE \E raises \in BOOLEAN :
                        IF raises
                        THEN /\ err' = [err EXCEPT ![r] = "CB_error"]
                             /\ pc' = [pc EXCEPT ![r] = "raised"]
                             /\ log' = [log EXCEPT ![r] = lg]
                             /\ UNCHANGED <<resp, http>>
                        ELSE /\ Exit(r, lg, "none")
                             /\ err' = err
    /\ UNCHANGED <<registryVars, call, given, extraction_allow_fallback, allow_fallback, require_sync, req, ctx,
                   result, tasks, pending, nodes, edges>>

\* ------------------------------------------------------ _persist_extraction

\* _persist_extraction up to the first relation's create: the entities are
\* bulk-created when there are any, the relations' endpoints are mapped
\* through the saved entities' names.
PersistEntities(r) ==
    /\ pc[r] = "persist_entities"
    /\ LET res == ResultOf(r, result[r])
           ns == IF res.entities # <<>> THEN BulkCreateEntities(nodes, res.entities)
                 ELSE nodes
           saved == IF res.entities # <<>> THEN SavedEntities(ns, res.entities) ELSE <<>>
           lg == log[r] \o (IF res.entities # <<>>
                            THEN <<Ev("bulk_entities", 0, result[r])>> ELSE <<>>)
       IN  /\ nodes' = ns
           /\ IF res.relations # <<>>
              THEN /\ pending' = [pending EXCEPT ![r] = MappedRelations(saved, res.relations)]
                   /\ pc' = [pc EXCEPT ![r] = "persist_relations"]
                   /\ log' = [log EXCEPT ![r] = lg \o <<Ev("bulk_relations", 0, result[r])>>]
                   /\ UNCHANGED <<resp, http>>
              ELSE /\ Exit(r, lg, "none")
                   /\ pending' = pending
    /\ UNCHANGED <<registryVars, call, given, extraction_allow_fallback, allow_fallback, require_sync, req, ctx,
                   result, err, tasks, edges>>

\* RelationRepository.bulk_create, one turn of its loop: create, whose
\* exception is logged and skipped; after the last one _persist_extraction
\* returns to its caller.
CreateRelation(r) ==
    /\ pc[r] = "persist_relations"
    /\ pending[r] # <<>>
    /\ LET rel == Head(pending[r])
           lg == log[r] \o <<Ev(IF CreateRaises(rel) THEN "relation_skipped"
                                ELSE "relation_created", 0, result[r])>>
       IN  /\ edges' = IF CreateRaises(rel) THEN edges ELSE CreateEdges(nodes, edges, rel)
           /\ pending' = [pending EXCEPT ![r] = Tail(@)]
           /\ IF Tail(pending[r]) = <<>>
              THEN Exit(r, lg, "none")
              ELSE /\ log' = [log EXCEPT ![r] = lg]
                   /\ UNCHANGED <<pc, resp, http>>
    /\ UNCHANGED <<registryVars, call, given, extraction_allow_fallback, allow_fallback, require_sync, req, ctx,
                   result, err, tasks, nodes>>

\* ------------------------------------------------ after pipeline.run raised

\* A service that deletes the entry again when extraction fails.
ServiceRaiseNodes_Rollback(ns, r) == [i \in DOMAIN ns \ {EntryId(r)} |-> ns[i]]

\* ingest_entry, inline: nothing catches, nothing is undone in the store.
ServiceRaiseNodes(ns, r) == ns

\* ingest_entry, inline: the exception of pipeline.run leaves ingest_entry;
\* the route turns it into a status.
ServiceRaise(r) ==
    /\ pc[r] = "raised"
    /\ ctx[r] = "service"
    /\ nodes' = ServiceRaiseNodes(nodes, r)
    /\ Exit(r, log[r], err[r])
    /\ UNCHANGED <<registryVars, call, given, extraction_allow_fallback, allow_fallback, require_sync, req, ctx,
                   result, err, tasks, pending, edges>>

\* A guard that catches provider errors only.
SafeCatches_ProviderErrorOnly(e) == IsExtractionProviderError(e)

\* _run_pipeline_safe: "except Exception"
SafeCatches(e) == TRUE

\* _run_pipeline_safe: the exception of pipeline.run or of on_complete is
\* logged and the function returns.
SafeCatch(r) ==
    /\ pc[r] = "raised"
    /\ ctx[r] \in {"dispatch_inline", "dispatch_bg"}
    /\ IF SafeCatches(err[r])
       THEN Exit(r, log[r] \o <<Ev("caught", 0, err[r])>>, "none")
       ELSE Exit(r, log[r], err[r])
    /\ UNCHANGED <<registryVars, call, given, extraction_allow_fallback, allow_fallback, require_sync, req, ctx,
                   result, err, tasks, pending, nodes, edges>>

\* ------------------------------------------------------------ specification

Next ==
    \E r \in Reqs :
        \/ PostEntries(r)
        \/ DirectIngest(r)
        \/ DirectEnqueue(r)
        \/ RunTask(r)
        \/ PrimaryExtract(r)
        \/ FallbackExtract(r)
        \/ ServiceAfterRun(r)
        \/ SafeAfterRun(r)
        \/ PersistEntities(r)
        \/ CreateRelation(r)
        \/ ServiceRaise(r)
        \/ SafeCatch(r)

Spec == Init /\ [][Next]_vars

\* ------------------------------------------- relation repository, called directly

\* Longest relation list handed to bulk_create.
MaxBulk == 2

\* The relations a caller may hand over.  Endpoints: the stored entry on
\* both ends, a source the store does not hold, or a target that is the name
\* of an extracted entity.  Types: upper case, lower case, with a line break
\* at the end, and the two strings the pattern is there to keep out.
RelationEnds == {<<EntryId(1), EntryId(1)>>, <<DerivedId(1, 2), EntryId(1)>>,
                 <<EntryId(1), NameStr(1)>>}
CreateTypes == {MENTIONS, MENTIONS_LOWER, MENTIONS_NEWLINE, BAD_TYPE, FOO_DELETE_ALL}
BulkTypes == {MENTIONS_LOWER, MENTIONS_NEWLINE, BAD_TYPE}
RelationsOf(types) == {Relation(e[1], e[2], ty) : e \in RelationEnds, ty \in types}

\* The entities of the result _persist_extraction is handed.
PersistedEntities == <<Entity(DerivedId(1, 1), NameStr(1), {"ENTITY", "PERSON"})>>

\* A store that holds the entry of request 1.
RelationInit ==
    /\ ServiceInit
    /\ RegistryNew(LOCAL_PROVIDER)
    /\ ~extraction_allow_fallback /\ ~allow_fallback
    /\ nodes = Upsert(<<>>, EntryEntity(1))
    /\ edges = {}
    /\ call = NoCall
    /\ given = <<>>

\* One create(rel) inside the call c: the raise, or the query and the
\* return of rel.
AfterCreate(c, given_rel, rel) ==
    [c EXCEPT !.args = Append(@, given_rel),
              !.mapped = Append(@, rel),
              !.raised = Append(@, CreateRaises(rel)),
              !.ret = IF CreateRaises(rel) THEN @ ELSE Append(@, rel),
              !.tokens = IF CreateRaises(rel) THEN @ ELSE Append(@, CreateToken(rel))]

\* RelationRepository.create(rel)
RelCreate ==
    /\ call.state # "open"
    /\ \E rel \in RelationsOf(CreateTypes) :
        /\ call' = [AfterCreate([NoCall EXCEPT !.op = "create"], rel, rel) EXCEPT
                       !.state = IF CreateRaises(rel) THEN "raised" ELSE "returned"]
        /\ edges' = IF CreateRaises(rel) THEN edges ELSE CreateEdges(nodes, edges, rel)
    /\ UNCHANGED <<registryVars, serviceVars, nodes, given>>

\* RelationRepository.bulk_create(relations) is entered, by a caller of the
\* repository or by _persist_extraction, which has bulk-created the result's
\* entities and built name_to_id from what it got back.
RelBulkBegin ==
    /\ call.state # "open"
    /\ \E op \in {"bulk_create", "persist"} :
        LET ns == IF op = "persist" THEN BulkCreateEntities(nodes, PersistedEntities)
                  ELSE nodes
            map == IF op = "persist" THEN NameToId(SavedEntities(ns, PersistedEntities))
                   ELSE <<>>
        IN  /\ nodes' = ns
            /\ call' = [NoCall EXCEPT !.op = op, !.state = "open", !.map = map]
    /\ UNCHANGED <<registryVars, serviceVars, edges, given>>

\* bulk_create, one turn of its loop over the next relation of the list;
\* under _persist_extraction the relation's endpoints went through _resolve.
RelBulkTurn ==
    /\ call.state = "open"
    /\ Len(call.args) < MaxBulk
    /\ \E given_rel \in RelationsOf(BulkTypes) :
        LET rel == Relation(Resolve(call.map, given_rel.source),
                            Resolve(call.map, given_rel.target), given_rel.relationType)
        IN  /\ call' = AfterCreate(call, given_rel, rel)
            /\ edges' = IF CreateRaises(rel) THEN edges ELSE CreateEdges(nodes, edges, rel)
    /\ UNCHANGED <<registryVars, serviceVars, nodes, given>>

\* bulk_create: the list is exhausted, created is returned.
RelBulkReturn ==
    /\ call.state = "open"
    /\ call' = [call EXCEPT !.state = "returned"]
    /\ UNCHANGED <<registryVars, serviceVars, nodes, edges, given>>

RelationNext == RelCreate \/ RelBulkBegin \/ RelBulkTurn \/ RelBulkReturn

RelationSpec == RelationInit /\ [][RelationNext]_vars

\* --------------------------------------------- entity repository, called directly

\* The entity the calls are about, a second one, and an id never stored.
EntityA == EntryId(1)
EntityB == DerivedId(1, 1)
UnknownId == DerivedId(1, 2)

LabelSets == {{"ENTITY", "ENTRY"}, {"ENTITY", "ENTRY", "PERSON"}, {"ENTITY", "PERSON"}}

\* Nested fields as ingestion builds them; every field set, the metadata
\* holding JSON values only; a metadata dict that holds a datetime.
EntryNested == [NoNested EXCEPT !["content"] = EntryContent, !["metadata"] = EntryMetadata]
RichNested ==
    [f \in JSON_FIELDS |->
        CASE f = "content" -> EntryContent
          [] f = "attachments" -> SomeAttachments
          [] f = "embedding" -> SomeEmbedding
          [] f = "metadata" -> IsoMetadata
          [] OTHER -> SomeObservations]
DatedNested ==
    [NoNested EXCEPT !["content"] = EntryContent, !["metadata"] = DatedMetadata,
                     !["observations"] = SomeObservations]

\* ensure_entry_payload: an ENTRY needs content, attachments or metadata.
EntryPayloadOk(sl, js) ==
    "ENTRY" \in sl =>
        \/ js["content"].kind # "None"
        \/ js["attachments"].slots # <<>>
        \/ js["metadata"].slots # <<>>

\* The entities a caller may upsert.
UpsertInputs ==
    {EntityWith(EntityA, NameStr(0), sl, js) :
        sl \in LabelSets, js \in {EntryNested, RichNested, DatedNested}}
    \cup {Entity(EntityA, NameStr(0), {"ENTITY", "PERSON"}),
          Entity(EntityB, NameStr(1), {"ENTITY", "PERSON"})}

\* The entities a caller may hand to bulk_create, in lists of up to MaxBulk.
BulkInputs ==
    {EntityWith(EntityA, NameStr(0), {"ENTITY", "ENTRY"}, EntryNested),
     Entity(EntityA, NameStr(0), {"ENTITY", "PERSON"}),
     Entity(EntityB, NameStr(1), {"ENTITY", "PERSON"})}

SeqsUpTo(S, n) == UNION {[1..k -> S] : k \in 0..n}

\* The system labels handed over for each id so far, after es.
GivenAfter(g, es) ==
    LET ids == {es[k].id : k \in DOMAIN es}
    IN  [i \in DOMAIN g \cup ids |->
            (IF i \in DOMAIN g THEN g[i] ELSE {})
                \cup UNION {es[k].system_labels : k \in {j \in DOMAIN es : es[j].id = i}}]

EntityInit ==
    /\ ServiceInit
    /\ RegistryNew(LOCAL_PROVIDER)
    /\ ~extraction_allow_fallback /\ ~allow_fallback
    /\ nodes = <<>>
    /\ edges = {}
    /\ call = NoCall
    /\ given = <<>>

\* EntityRepository.upsert(entity)
EntUpsert ==
    \E e \in UpsertInputs :
        /\ EntryPayloadOk(e.system_labels, e.json)
        /\ nodes' = Upsert(nodes, e)
        /\ call' = [NoCall EXCEPT !.op = "upsert", !.key = e.id, !.args = <<e>>,
                                  !.ret = <<NodeToEntity(e.id, nodes'[e.id])>>]
        /\ given' = GivenAfter(given, <<e>>)
        /\ UNCHANGED <<registryVars, serviceVars, edges>>

\* EntityRepository.bulk_create(entities)
EntBulkCreate ==
    \E es \in SeqsUpTo(BulkInputs, MaxBulk) :
        /\ nodes' = IF es = <<>> THEN nodes ELSE BulkCreateEntities(nodes, es)
        /\ call' = [NoCall EXCEPT !.op = "bulk_create", !.args = es,
                                  !.ret = SavedEntities(nodes', es)]
        /\ given' = GivenAfter(given, es)
        /\ UNCHANGED <<registryVars, serviceVars, edges>>

\* EntityRepository.get(entity_id): None for an id the store does not hold,
\* else _node_to_entity of the node.
EntGet ==
    \E id \in {EntityA, EntityB, UnknownId} :
        /\ call' = IF id \notin DOMAIN nodes
                   THEN [NoCall EXCEPT !.op = "get", !.key = id]
                   ELSE IF ReadRaises(nodes[id])
                   THEN [NoCall EXCEPT !.op = "get", !.key = id, !.state = "raised"]
                   ELSE [NoCall EXCEPT !.op = "get", !.key = id,
                                       !.ret = <<NodeToEntity(id, nodes[id])>>]
        /\ UNCHANGED <<registryVars, serviceVars, nodes, edges, given>>

\* Another writer of the store leaves a string that is no JSON in one of the
\* JSON properties of the node of EntityA.
Corrupt ==
    /\ EntityA \in DOMAIN nodes
    /\ ~ReadRaises(nodes[EntityA])
    /\ \E f \in JSON_FIELDS :
          nodes' = [nodes EXCEPT ![EntityA].json[f] = Garbage]
    /\ call' = [NoCall EXCEPT !.op = "corrupt", !.key = EntityA]
    /\ UNCHANGED <<registryVars, serviceVars, edges, given>>

EntityNext == EntUpsert \/ EntBulkCreate \/ EntGet \/ Corrupt

EntitySpec == EntityInit /\ [][EntityNext]_vars

\* ------------------------------------------------------ Entity construction

\* Lists of labels handed to the constructor have up to MaxLabels elements.
MaxLabels == 3

\* Members of SystemLabel the constructor is handed here.
SystemLabels == {"ENTITY", "ENTRY", "PERSON"}

Whitespace == {" ", "\t", "\n"}

\* str.strip(): the string between its first and its last character that
\* is no whitespace.
Strip(s) ==
    LET ink == {i \in DOMAIN s : s[i] \notin Whitespace}
    IN  IF ink = {} THEN <<>>
        ELSE SubSeq(s, CHOOSE i \in ink : \A j \in ink : i <= j,
                       CHOOSE i \in ink : \A j \in ink : j <= i)

\* str.lower(), character by character.
LowerChar(c) ==
    IF \E i \in DOMAIN UpperChars : UpperChars[i] = c
    THEN LowerChars[CHOOSE i \in DOMAIN UpperChars : UpperChars[i] = c]
    ELSE c

Lower(s) == [i \in DOMAIN s |-> LowerChar(s[i])]

\* A validator that compares the trimmed labels as they are spelled.
LabelKey_Spelled(normalized) == normalized

\* normalize_labels: lower = normalized.lower(), the key of the seen set.
LabelKey(normalized) == Lower(normalized)

\* Entity.normalize_labels: the loop over the labels, with the seen set and
\* the cleaned list after each turn.
normalize_labels(values) ==
    LET turn[i \in 0..Len(values)] ==
            IF i = 0 THEN [seen |-> {}, cleaned |-> <<>>]
            ELSE LET before == turn[i - 1]
                     normalized == Strip(values[i])
                 IN  IF normalized = <<>> THEN before
                     ELSE IF LabelKey(normalized) \in before.seen THEN before
                     ELSE [seen |-> before.seen \cup {LabelKey(normalized)},
                           cleaned |-> Append(before.cleaned, normalized)]
    IN  turn[Len(values)].cleaned

\* A validator that puts the missing ENTITY at the end of the list.
InsertEntity_Last(cleaned) == Append(cleaned, "ENTITY")

\* ensure_system_labels: cleaned.insert(0, SystemLabel.ENTITY)
InsertEntity(cleaned) == <<"ENTITY">> \o cleaned

\* Entity.ensure_system_labels: the loop that drops repeated labels, then the
\* insertion of ENTITY when the loop has not seen it.
ensure_system_labels(values) ==
    LET turn[i \in 0..Len(values)] ==
            IF i = 0 THEN [seen |-> {}, cleaned |-> <<>>]
            ELSE LET before == turn[i - 1]
                     label == values[i]
                 IN  IF label \in before.seen THEN before
                     ELSE [seen |-> before.seen \cup {label},
                           cleaned |-> Append(before.cleaned, label)]
        last == turn[Len(values)]
    IN  IF "ENTITY" \notin last.seen THEN InsertEntity(last.cleaned) ELSE last.cleaned

\* Entity.is_entry
is_entry(system_labels) == "ENTRY" \in Range(system_labels)

\* A guard that takes the content for the whole payload.
PayloadGiven_ContentOnly(js) == js["content"].kind # "None"

\* ensure_entry_payload: any([self.content, self.attachments, self.metadata]);
\* a ContentBlock is true whatever it holds, a list or a dict when it is not
\* empty.
PayloadGiven(js) ==
    \/ js["content"].kind # "None"
    \/ js["attachments"].slots # <<>>
    \/ js["metadata"].slots # <<>>

\* Entity.ensure_entry_payload raises the ValueError.
ensure_entry_payload_raises(system_labels, js) ==
    is_entry(system_labels) /\ ~PayloadGiven(js)

\* Label strings: blank ones, one word in both cases with and without
\* spaces around it, another word, and a word with a space inside.
LabelStrings ==
    {<<>>, <<" ">>, <<"a">>, <<"A">>, <<" ", "a">>, <<"A", " ">>, <<"b">>,
     <<"a", " ", "b">>}

\* Nested fields of the constructor's arguments: each of content,
\* attachments and metadata given or left out.
Payloads ==
    {[NoNested EXCEPT !["content"] = c, !["attachments"] = a, !["metadata"] = m] :
        c \in {DefaultOf("content"), EntryContent},
        a \in {DefaultOf("attachments"), SomeAttachments},
        m \in {DefaultOf("metadata"), EntryMetadata}}

\* The keyword arguments of Entity(...): the labels vary with the other
\* fields left at their defaults, or the system labels vary with the payload.
EntityArgs ==
    {[labels |-> ls, system_labels |-> <<"ENTITY">>, json |-> NoNested] :
        ls \in SeqsUpTo(LabelStrings, MaxLabels)}
    \cup {[labels |-> <<>>, system_labels |-> sl, json |-> js] :
            sl \in SeqsUpTo(SystemLabels, MaxLabels), js \in Payloads}

\* A caller about to construct an entity from some keyword arguments.
ConstructInit ==
    /\ ServiceInit
    /\ RegistryNew(LOCAL_PROVIDER)
    /\ ~extraction_allow_fallback /\ ~allow_fallback
    /\ nodes = <<>>
    /\ edges = {}
    /\ \E kw \in EntityArgs :
          call = [NoCall EXCEPT !.op = "Entity", !.state = "called", !.args = <<kw>>]
    /\ given = <<>>

\* Entity(**kw): the field validators, then the model validator on their
\* results.
NewEntity ==
    /\ call.op = "Entity" /\ call.state = "called"
    /\ LET kw == call.args[1]
           labels == normalize_labels(kw.labels)
           system_labels == ensure_system_labels(kw.system_labels)
       IN  call' = IF ensure_entry_payload_raises(system_labels, kw.json)
                   THEN [call EXCEPT !.state = "raised"]
                   ELSE [call EXCEPT !.state = "returned",
                                     !.ret = <<[labels |-> labels,
                                                system_labels |-> system_labels,
                                                json |-> kw.json]>>]
    /\ UNCHANGED <<registryVars, serviceVars, nodes, edges, given>>

ConstructNext == NewEntity

ConstructSpec == ConstructInit /\ [][ConstructNext]_vars

\* ------------------------------------------------------ provider registry

\* The values of Settings.extraction_provider: the default, a known
\* provider in mixed case, a name the registry does not know, and the empty
\* string.
ProviderNames == {LOCAL_PROVIDER, OPENAI_MIXED, BOGUS, <<>>}

\* get_extraction_provider: key = (extraction_provider or "local").lower()
ProviderKey(name) == Lower(IF name = <<>> THEN LOCAL_PROVIDER ELSE name)

\* A factory that takes an unknown name for the OpenAI provider.
build_provider_OpenAIDefault(key) ==
    CASE key = OLLAMA -> "OllamaProvider"
      [] key = ANTHROPIC -> "AnthropicProvider"
      [] key = LOCAL_PROVIDER -> "LocalLLMProvider"
      [] OTHER -> "OpenAIProvider"

\* ProviderRegistry._build_provider(key): the class of the new provider.
build_provider(key) ==
    CASE key = OLLAMA -> "OllamaProvider"
      [] key = OPENAI -> "OpenAIProvider"
      [] key = ANTHROPIC -> "AnthropicProvider"
      [] OTHER -> "LocalLLMProvider"

\* The registry's two lookups, the key each one caches under, and the class
\* it builds when the key is missing.
RegistryOps == {"get_extraction_provider", "get_fallback_local"}
KeyOf(op) == IF op = "get_fallback_local" THEN LOCAL_PROVIDER ELSE ProviderKey(extraction_provider)
ClassOf(op, key) == IF op = "get_fallback_local" THEN "LocalLLMProvider" ELSE build_provider(key)

InCall(t) == thread[t].pc # "idle"

\* Thread t enters a lookup and tests "key not in self._instances".  Every
\* call that is under way at the same time is marked as raced, this one too.
RegCheck(t) ==
    /\ ~InCall(t)
    /\ Cardinality(handed) + Cardinality({u \in Threads : InCall(u)}) < MaxCalls
    /\ \E op \in RegistryOps :
          LET others == {u \in Threads \ {t} : InCall(u)}
              key == KeyOf(op)
          IN  thread' = [u \in Threads |->
                            IF u = t
                            THEN [pc |-> IF key \in DOMAIN instances THEN "return" ELSE "build",
                                  op |-> op, key |-> key, made |-> 0,
                                  raced |-> others # {}]
                            ELSE IF u \in others THEN [thread[u] EXCEPT !.raced = TRUE]
                            ELSE thread[u]]
    /\ UNCHANGED <<serviceVars, nodes, edges, call, given,
                   extraction_provider, instances, built, handed>>

\* The right-hand side of the assignment: a new provider is constructed.
RegBuild(t) ==
    /\ thread[t].pc = "build"
    /\ built' = Append(built, [key |-> thread[t].key,
                               class |-> ClassOf(thread[t].op, thread[t].key)])
    /\ thread' = [thread EXCEPT ![t].pc = "store", ![t].made = Len(built')]
    /\ UNCHANGED <<serviceVars, nodes, edges, call, given,
                   extraction_provider, instances, handed>>

\* self._instances[key] = the provider just constructed
RegStore(t) ==
    /\ thread[t].pc = "store"
    /\ instances' = [k \in DOMAIN instances \cup {thread[t].key} |->
                        IF k = thread[t].key THEN thread[t].made ELSE instances[k]]
    /\ thread' = [thread EXCEPT ![t].pc = "return"]
    /\ UNCHANGED <<serviceVars, nodes, edges, call, given,
                   extraction_provider, built, handed>>

\* return self._instances[key]
RegReturn(t) ==
    /\ thread[t].pc = "return"
    /\ handed' = handed \cup {[op |-> thread[t].op, key |-> thread[t].key,
                               inst |-> instances[thread[t].key],
                               raced |-> thread[t].raced,
                               nth |-> Cardinality(handed) + 1]}
    /\ thread' = [thread EXCEPT ![t] = IdleThread]
    /\ UNCHANGED <<serviceVars, nodes, edges, call, given,
                   extraction_provider, instances, built>>

\* A registry just constructed, under any configured name.
RegistryInit ==
    /\ ServiceInit
    /\ ~extraction_allow_fallback /\ ~allow_fallback
    /\ \E name \in ProviderNames : RegistryNew(name)
    /\ nodes = <<>>
    /\ edges = {}
    /\ call = NoCall
    /\ given = <<>>

RegistryNext == \E t \in Threads : RegCheck(t) \/ RegBuild(t) \/ RegStore(t) \/ RegReturn(t)

RegistrySpec == RegistryInit /\ [][RegistryNext]_vars

\* -------------------------------------------------------------- providers

\* Texts are sequences of words with one space between them; a word is a
\* sequence of letters.  Texts handed to a provider have up to MaxWords
\* words.
MaxWords == 2

BRIAN == <<"B", "r", "i", "a", "n">>
DATE == <<"D", "a", "t", "e">>
FLORIST == <<"F", "l", "o", "r", "i", "s", "t">>
HE == <<"H", "e">>
JUNCTION == <<"J", "u", "n", "c", "t", "i", "o", "n">>
MET == <<"m", "e", "t">>

Words == {BRIAN, DATE, FLORIST, HE, JUNCTION, MET}

\* Of PERSON_HINTS, LOCATION_HINTS, ORGANIZATION_HINTS, EVENT_HINTS and
\* STOPWORDS, the members a text over Words can meet.
PERSON_HINTS == {BRIAN}
STOPWORDS == {Lower(HE)}

\* " ".join(words)
RECURSIVE Join(_)
Join(words) ==
    IF words = <<>> THEN <<>>
    ELSE IF Len(words) = 1 THEN words[1]
    ELSE words[1] \o <<" ">> \o Join(Tail(words))

\* "sub in s" and s.endswith(suf), on strings
Contains(s, sub) ==
    \E i \in 1..(Len(s) - Len(sub) + 1) : SubSeq(s, i, i + Len(sub) - 1) = sub
EndsWith(s, suf) ==
    Len(suf) <= Len(s) /\ SubSeq(s, Len(s) - Len(suf) + 1, Len(s)) = suf

\* The order of characters: the space, the capitals, the small letters.
CharRank(c) ==
    IF c = " " THEN 0
    ELSE IF \E i \in DOMAIN UpperChars : UpperChars[i] = c
    THEN CHOOSE i \in DOMAIN UpperChars : UpperChars[i] = c
    ELSE 26 + (CHOOSE i \in DOMAIN LowerChars : LowerChars[i] = c)

\* s < t for strings, as sorted() compares them.
StrLess(s, t) ==
    \E k \in 0..Len(s) :
        /\ k <= Len(t)
        /\ SubSeq(s, 1, k) = SubSeq(t, 1, k)
        /\ \/ k = Len(s) /\ k < Len(t)
           \/ k < Len(s) /\ k < Len(t) /\ CharRank(s[k + 1]) < CharRank(t[k + 1])

\* [A-Z][a-z]+ matches the whole word.
Capitalized(w) ==
    /\ Len(w) >= 2
    /\ w[1] \in Range(UpperChars)
    /\ \A i \in 2..Len(w) : w[i] \in Range(LowerChars)

\* pattern.findall(text): from the left, a capitalized word together with
\* the capitalized word that follows it, if one does.
findall(text) ==
    LET from[i \in 1..(Len(text) + 2)] ==
            IF i > Len(text) THEN <<>>
            ELSE IF ~Capitalized(text[i]) THEN from[i + 1]
            ELSE IF i < Len(text) /\ Capitalized(text[i + 1])
                 THEN <<<<text[i], text[i + 1]>>>> \o from[i + 2]
                 ELSE <<<<text[i]>>>> \o from[i + 1]
    IN  from[1]

\* The set of candidates: the matches that are no stopword, and the person
\* hints the text contains.
Candidates(text) ==
    LET found == findall(text)
    IN  {Strip(Join(found[i])) :
            i \in {j \in DOMAIN found : Lower(Strip(Join(found[j]))) \notin STOPWORDS}}
        \cup {name \in PERSON_HINTS : Contains(Join(text), name)}

\* The orders in which a set may be iterated.
Orders(S) ==
    {s \in [1..Cardinality(S) -> S] : \A i, j \in DOMAIN s : s[i] = s[j] => i = j}

\* A list of the candidates in the order the set yields them.
sorted_AsIterated(names) == names

\* sorted(candidates)
sorted(names) == SortSeq(names, StrLess)

\* _extract_named_entities, when the set yields its members in this order.
extract_named_entities(order) == sorted(order)

\* LocalLLMProvider._infer_system_label(name)
infer_system_label(name) ==
    IF EndsWith(Lower(name), Lower(JUNCTION)) THEN "LOCATION"
    ELSE IF Contains(name, FLORIST) THEN "ORGANIZATION"
    ELSE IF Contains(Lower(name), Lower(DATE)) THEN "EVENT"
    ELSE "PERSON"

GENERATED == <<"g", "e", "n", "e", "r", "a", "t", "e", "d">>
EXTRACTED == <<"e", "x", "t", "r", "a", "c", "t", "e", "d">>
LOCATION_LABEL == <<"l", "o", "c", "a", "t", "i", "o", "n">>
ORGANIZATION_LABEL == <<"o", "r", "g", "a", "n", "i", "z", "a", "t", "i", "o", "n">>

\* LocalLLMProvider._build_entity(name, entry), the new entity's id being
\* uuid.
build_entity(name, uuid) ==
    LET system_label == infer_system_label(name)
        labels == <<GENERATED, EXTRACTED>> \o
                  (IF system_label = "LOCATION" THEN <<LOCATION_LABEL>>
                   ELSE IF system_label = "ORGANIZATION" THEN <<ORGANIZATION_LABEL>>
                   ELSE <<>>)
    IN  [id |-> uuid, name |-> name,
         system_labels |-> ensure_system_labels(<<system_label>>),
         labels |-> normalize_labels(labels)]

\* ExtractionResult()
EmptyResult == [entities |-> <<>>, relations |-> <<>>]

\* Optional values: None, or a value.
None == [some |-> FALSE, v |-> <<>>]
Some(v) == [some |-> TRUE, v |-> v]

\* Python's truth of an optional string, and of an optional dict.
Truthy(opt) == opt.some /\ opt.v # <<>>

\* metadata.get("text", "")
GetText(metadata) ==
    IF "text" \in DOMAIN metadata.v THEN metadata.v["text"] ELSE <<>>

\* entry.content.body if entry.content else entry.summary or ""
EntryText(entry) ==
    IF entry.content.some THEN entry.content.v
    ELSE IF Truthy(entry.summary) THEN entry.summary.v ELSE <<>>

\* An extract that asks the metadata for a text whenever the entry has none.
MetadataConsulted_Unguarded(text, metadata) == text = <<>>

\* LocalLLMProvider.extract: "if not text and metadata"
MetadataConsulted(text, metadata) == text = <<>> /\ Truthy(metadata)

\* metadata.get on None raises an AttributeError.
LocalRaises(entry, metadata) ==
    MetadataConsulted(EntryText(entry), metadata) /\ ~metadata.some

\* LocalLLMProvider.extract: the text it works on.
LocalText(entry, metadata) ==
    IF MetadataConsulted(EntryText(entry), metadata)
    THEN GetText(metadata) ELSE EntryText(entry)

\* A local provider whose relations all point at the first entity.
LocalResult_FirstTarget(entry, order, run) ==
    LET names == extract_named_entities(order)
        entities == [i \in DOMAIN names |-> build_entity(names[i], <<"uuid", run, i>>)]
    IN  [entities |-> entities,
         relations |-> [i \in DOMAIN entities |->
                           Relation(entry.id, entities[1].id, MENTIONS)]]

\* LocalLLMProvider.extract(entry, metadata) on a text that is not empty,
\* in run number run, when the candidate set yields its members in this
\* order.
LocalResult(entry, order, run) ==
    LET names == extract_named_entities(order)
        entities == [i \in DOMAIN names |-> build_entity(names[i], <<"uuid", run, i>>)]
    IN  [entities |-> entities,
         relations |-> [i \in DOMAIN entities |->
                           Relation(entry.id, entities[i].id, MENTIONS)]]

\* The results LocalLLMProvider.extract(entry, metadata) may return in run
\* number run: the empty one without a text, else one per order of
\* iteration.
LocalResults(entry, metadata, run) ==
    LET text == LocalText(entry, metadata)
    IN  IF text = <<>> THEN {EmptyResult}
        ELSE {LocalResult(entry, order, run) : order \in Orders(Candidates(text))}

\* What a cloud provider's API sent as the text of its answer: no JSON, a
\* JSON array, or a JSON object with these entities and relations.
NotJson == [json |-> "invalid", entities |-> <<>>, relations |-> <<>>]
JsonArray == [json |-> "array", entities |-> <<>>, relations |-> <<>>]
JsonObject(entities, relations) ==
    [json |-> "object", entities |-> entities, relations |-> relations]

\* Members of the "entities" list: a person, an entry without content,
\* attachments or metadata, an entity under a label SystemLabel does not
\* have, and a string.
PersonObj == [dict |-> TRUE, name |-> BRIAN, system_labels |-> <<"PERSON">>, json |-> NoNested]
BareEntryObj == [dict |-> TRUE, name |-> BRIAN, system_labels |-> <<"ENTRY">>, json |-> NoNested]
HumanObj == [dict |-> TRUE, name |-> BRIAN, system_labels |-> <<"HUMAN">>, json |-> NoNested]
StringItem == [dict |-> FALSE, name |-> BRIAN, system_labels |-> <<>>, json |-> NoNested]

\* The values of SystemLabel.
SystemLabelValues ==
    {"ENTRY", "ENTITY", "PERSON", "LOCATION", "ORGANIZATION", "OBJECT", "EVENT",
     "CONCEPT", "OBSERVATION"}

\* Entity.model_validate(obj) raises a ValidationError: a label outside
\* the enum, or the ValueError of ensure_entry_payload.
ModelValidateRaises(obj) ==
    \/ ~(Range(obj.system_labels) \subseteq SystemLabelValues)
    \/ ensure_entry_payload_raises(ensure_system_labels(obj.system_labels), obj.json)

\* Entity.model_validate(obj), the new entity's id being uuid.
ModelValidate(obj, uuid) ==
    [id |-> uuid, name |-> obj.name,
     system_labels |-> ensure_system_labels(obj.system_labels),
     labels |-> <<>>]

\* A parser that takes every failure for an ExtractionProviderError.
ParseFailure_AllProviderErrors(raw) == "ExtractionProviderError"

\* _parse_response: the exception a response ends in that is no JSON object
\* of valid entities.  Only json.JSONDecodeError is turned into an
\* ExtractionProviderError; parsed.get on a list and model_validate on an
\* invalid object raise what they raise.
ParseFailure(raw) ==
    IF raw.json = "invalid" THEN "ExtractionProviderError"
    ELSE IF raw.json = "array" THEN "AttributeError"
    ELSE "ValidationError"

\* _parse_response(raw): the result, or the exception raised.
parse_response(raw) ==
    LET dicts == SelectSeq(raw.entities, LAMBDA obj : obj.dict)
    IN  IF raw.json # "object" THEN [raises |-> ParseFailure(raw), result |-> EmptyResult]
        ELSE IF \E i \in DOMAIN dicts : ModelValidateRaises(dicts[i])
        THEN [raises |-> ParseFailure(raw), result |-> EmptyResult]
        ELSE IF dicts = <<>> /\ raw.relations = <<>>
        THEN [raises |-> "ExtractionProviderError", result |-> EmptyResult]
        ELSE [raises |-> "none",
              result |-> [entities |-> [i \in DOMAIN dicts |->
                                           ModelValidate(dicts[i], <<"uuid", 0, i>>)],
                          relations |-> raw.relations]]

\* The calls a provider may get: the provider, the entry, the metadata,
\* and for a cloud provider its API key and what its HTTP call does.
Texts == SeqsUpTo(Words, MaxWords) \ {<<>>}

EntryArgs ==
    {[id |-> EntryId(1), content |-> Some(t), summary |-> None] : t \in Texts}
    \cup {[id |-> EntryId(1), content |-> None, summary |-> s] :
            s \in {None, Some(<<>>), Some(<<BRIAN>>)}}

MetadataArgs ==
    {None, Some(<<>>), Some([source |-> <<MET>>]), Some([text |-> <<>>]),
     Some([text |-> <<BRIAN, MET>>])}

RawResponses ==
    {NotJson, JsonArray, JsonObject(<<>>, <<>>), JsonObject(<<StringItem>>, <<>>),
     JsonObject(<<PersonObj>>, <<>>), JsonObject(<<PersonObj, BareEntryObj>>, <<>>),
     JsonObject(<<HumanObj>>, <<>>),
     JsonObject(<<>>, <<Relation(EntryId(1), EntryId(1), MENTIONS)>>)}

NoEnv == [api_key |-> FALSE, http |-> "none", raw |-> NotJson]

CloudEnvs ==
    {NoEnv, [NoEnv EXCEPT !.api_key = TRUE, !.http = "raises"]}
    \cup {[api_key |-> TRUE, http |-> "ok", raw |-> raw] : raw \in RawResponses}

ProviderInit ==
    /\ ServiceInit
    /\ RegistryNew(LOCAL_PROVIDER)
    /\ ~extraction_allow_fallback /\ ~allow_fallback
    /\ nodes = <<>>
    /\ edges = {}
    /\ given = <<>>
    /\ \E entry \in EntryArgs, metadata \in MetadataArgs :
          \/ call = [NoCall EXCEPT !.op = "extract", !.state = "called",
                                   !.key = "LocalLLMProvider",
                                   !.args = <<entry, metadata, NoEnv>>]
          \/ \E class \in {"OpenAIProvider", "AnthropicProvider"}, env \in CloudEnvs :
                call = [NoCall EXCEPT !.op = "extract", !.state = "called",
                                      !.key = class, !.args = <<entry, metadata, env>>]

\* LocalLLMProvider.extract(entry, metadata), once and once more on the
\* same arguments.
LocalExtract ==
    /\ call.op = "extract" /\ call.key = "LocalLLMProvider"
    /\ Len(call.ret) < 2 /\ call.state # "raised"
    /\ IF LocalRaises(call.args[1], call.args[2])
       THEN call' = [call EXCEPT !.state = "raised", !.raised = <<"AttributeError">>]
       ELSE \E r \in LocalResults(call.args[1], call.args[2], Len(call.ret) + 1) :
               call' = [call EXCEPT !.state = "returned", !.ret = Append(@, r)]
    /\ UNCHANGED <<registryVars, serviceVars, nodes, edges, given>>

\* OpenAIProvider.extract / AnthropicProvider.extract: without an API key,
\* after a failed HTTP call and after an ExtractionProviderError of the
\* parser the fallback's result; any other exception of the parser goes to
\* the caller.
CloudExtract ==
    /\ call.op = "extract" /\ call.key # "LocalLLMProvider" /\ call.state = "called"
    /\ LET entry == call.args[1]
           metadata == call.args[2]
           env == call.args[3]
           parsed == parse_response(env.raw)
       IN  IF ~env.api_key \/ env.http = "raises"
              \/ parsed.raises = "ExtractionProviderError"
           THEN IF LocalRaises(entry, metadata)
                THEN call' = [call EXCEPT !.state = "raised",
                                          !.raised = <<"AttributeError">>]
                ELSE \E r \in LocalResults(entry, metadata, 1) :
                        call' = [call EXCEPT !.state = "returned", !.ret = <<r>>,
                                             !.tokens = <<"fallback">>]
           ELSE IF parsed.raises # "none"
           THEN call' = [call EXCEPT !.state = "raised", !.raised = <<parsed.raises>>]
           ELSE call' = [call EXCEPT !.state = "returned", !.ret = <<parsed.result>>]
    /\ UNCHANGED <<registryVars, serviceVars, nodes, edges, given>>

ProviderNext == LocalExtract \/ CloudExtract

ProviderSpec == ProviderInit /\ [][ProviderNext]_vars

\* ------------------------------------------- the store under deletion

\* The ids a client of the two repositories works with; the store may or
\* may not hold a node for each.
GraphIds == {EntityA, EntityB, UnknownId}

\* A delete that takes the node's outgoing edges with it and no others.
DetachEdges_Outgoing(es, id) == {e \in es : e.source # id}

\* DETACH DELETE e: the edges left when the node of id goes, the ones that
\* neither start nor end at it.
DetachEdges(es, id) == {e \in es : e.source # id /\ e.target # id}

\* MATCH (e:Entity {id: $entity_id}) DETACH DELETE e: the nodes left.
DeleteNode(ns, id) == [i \in DOMAIN ns \ {id} |-> ns[i]]

\* RETURN count(e) AS deleted_count, then bool(record and deleted_count)
Deleted(ns, id) == (IF id \in DOMAIN ns THEN ns[id].copies ELSE 0) # 0

\* EntityRepository.upsert(entity) of a person under one of the ids
GraphUpsert ==
    \E id \in GraphIds :
        LET e == Entity(id, NameStr(1), {"ENTITY", "PERSON"})
        IN  /\ nodes' = Upsert(nodes, e)
            /\ call' = [NoCall EXCEPT !.op = "upsert", !.key = id, !.args = <<e>>,
                                      !.ret = <<NodeToEntity(id, nodes'[id])>>]
            /\ UNCHANGED <<registryVars, serviceVars, edges, given>>

\* RelationRepository.create(relation) between two of the ids
GraphCreate ==
    \E s \in GraphIds, t \in GraphIds :
        LET rel == Relation(s, t, MENTIONS)
        IN  /\ ~CreateRaises(rel)
            /\ edges' = CreateEdges(nodes, edges, rel)
            /\ call' = [NoCall EXCEPT !.op = "create", !.args = <<rel>>, !.ret = <<rel>>]
            /\ UNCHANGED <<registryVars, serviceVars, nodes, given>>

\* EntityRepository.delete(entity_id)
GraphDelete ==
    \E id \in GraphIds :
        /\ nodes' = DeleteNode(nodes, id)
        /\ edges' = DetachEdges(edges, id)
        /\ call' = [NoCall EXCEPT !.op = "delete", !.key = id,
                                  !.ret = <<Deleted(nodes, id)>>]
        /\ UNCHANGED <<registryVars, serviceVars, given>>

\* The relations a caller hands to RelationRepository.bulk_create here.
GraphRelations ==
    {Relation(EntityA, EntityB, MENTIONS), Relation(EntityA, UnknownId, MENTIONS)}

\* RelationRepository.bulk_create: create for each relation in turn, a
\* raising create being logged and passed over.
RECURSIVE CreateAll(_, _, _)
CreateAll(ns, es, rels) ==
    IF rels = <<>> THEN es
    ELSE CreateAll(ns,
                   IF CreateRaises(rels[1]) THEN es ELSE CreateEdges(ns, es, rels[1]),
                   Tail(rels))

\* EntityRepository.bulk_create(entities) of persons under the two ids
GraphBulkCreate ==
    \E ids \in SeqsUpTo({EntityA, EntityB}, MaxBulk) :
        LET es == [i \in DOMAIN ids |-> Entity(ids[i], NameStr(1), {"ENTITY", "PERSON"})]
        IN  /\ nodes' = BulkCreateEntities(nodes, es)
            /\ call' = [NoCall EXCEPT !.op = "bulk_create"]
            /\ UNCHANGED <<registryVars, serviceVars, edges, given>>

\* RelationRepository.bulk_create(relations), which returns the relations
\* whose create did not raise
GraphRelationBulkCreate ==
    \E rels \in SeqsUpTo(GraphRelations, MaxBulk) :
        /\ edges' = CreateAll(nodes, edges, rels)
        /\ call' = [NoCall EXCEPT !.op = "relation_bulk_create",
                                  !.ret = SelectSeq(rels, LAMBDA r : ~CreateRaises(r))]
        /\ UNCHANGED <<registryVars, serviceVars, nodes, given>>

GraphNext ==
    \/ GraphUpsert \/ GraphCreate \/ GraphDelete
    \/ GraphBulkCreate \/ GraphRelationBulkCreate

GraphSpec == EntityInit /\ [][GraphNext]_vars

\* ------------------------------------------------------ the entries route

\* Addresses of users, and the values a client may send under a metadata
\* key: an address or null.
Emails == {"alice@example.org", "mallory@example.org"}
MetadataValues == Emails \cup {"null"}

\* The metadata of a request: a dict over some of these keys.
MetadataDicts ==
    UNION {[keys -> MetadataValues] : keys \in SUBSET {"submitted_by", "user_id"}}

EntryRequests ==
    {[metadata |-> m, process_synchronously |-> b] : m \in MetadataDicts, b \in BOOLEAN}

\* A route that works on the request itself.
model_copy_Same(request) == [object |-> "request", value |-> request]

\* request.model_copy(deep=True): a new object with its own metadata dict.
model_copy(request) == [object |-> "payload", value |-> request]

\* A route that writes the caller's address over whatever the client sent.
setdefault_Assign(dict, key, value) ==
    [k \in DOMAIN dict \cup {key} |-> IF k = key THEN value ELSE dict[k]]

\* dict.setdefault(key, value): the value is set when the key is missing,
\* and left alone when the dict has the key.
setdefault(dict, key, value) ==
    [k \in DOMAIN dict \cup {key} |-> IF k \in DOMAIN dict THEN dict[k] ELSE value]

\* An authenticated request is about to be handled.
RouterInit ==
    /\ ServiceInit
    /\ RegistryNew(LOCAL_PROVIDER)
    /\ ~extraction_allow_fallback /\ ~allow_fallback
    /\ nodes = <<>>
    /\ edges = {}
    /\ \E request \in EntryRequests, email \in Emails :
          /\ call = [NoCall EXCEPT !.op = "ingest_entry", !.state = "called",
                                   !.args = <<request, email>>]
          /\ given = <<request>>

\* routers.ingest_entry: the copy, the submitter's address, the use case
\* with the copy, and the status that answers what the use case did.  args
\* is the request object after the call, mapped what the use case was
\* handed.
RouteIngestEntry ==
    /\ call.op = "ingest_entry" /\ call.state = "called"
    /\ \E outcome \in {"queued", "processed", "EPE_primary", "OTHER_primary"} :
          LET request == call.args[1]
              email == call.args[2]
              copy == model_copy(request)
              metadata == setdefault(copy.value.metadata, "submitted_by", email)
              payload == [copy.value EXCEPT !.metadata = metadata]
          IN  call' = [call EXCEPT
                          !.state = IF outcome \in {"queued", "processed"}
                                    THEN "returned" ELSE "raised",
                          !.args = <<IF copy.object = "request" THEN payload ELSE request,
                                     email>>,
                          !.mapped = <<payload>>,
                          !.ret = <<HttpStatus("http", outcome)>>]
    /\ UNCHANGED <<registryVars, serviceVars, nodes, edges, given>>

RouterNext == RouteIngestEntry

RouterSpec == RouterInit /\ [][RouterNext]_vars

\* ------------------------------------- two persistences at the same time

\* The entries whose extractions are persisted in the background at the
\* same time.
NEntries == 2
Entries == 1..NEntries

\* The service defers extraction (fallback allowed, so require_sync is
\* off); every entry is stored and answered, and the background task of
\* each is about to call _persist_extraction on the result of its own
\* pipeline run.
PersistInit ==
    /\ extraction_allow_fallback = TRUE
    /\ allow_fallback = PipelineAllowFallback("None", extraction_allow_fallback)
    /\ require_sync = RequireSync(extraction_allow_fallback)
    /\ RegistryNew(LOCAL_PROVIDER)
    /\ req = [r \in Entries |-> [NoReq EXCEPT !.via = "http", !.scheduler = TRUE]]
    /\ pc = [r \in Entries |-> "persist_entities"]
    /\ ctx = [r \in Entries |-> "dispatch_bg"]
    /\ resp = [r \in Entries |-> "queued"]
    /\ http = [r \in Entries |-> 202]
    /\ result \in [Entries -> ResultIds]
    /\ err = [r \in Entries |-> "none"]
    /\ tasks = [r \in Entries |-> <<>>]
    /\ pending = [r \in Entries |-> <<>>]
    /\ log = [r \in Entries |-> <<>>]
    /\ nodes = MergeAll(<<>>, [r \in Entries |-> EntryEntity(r)])
    /\ edges = {}
    /\ call = NoCall
    /\ given = <<>>

\* A step of one of the persistences: the bulk_create of its entities with
\* the mapping of its relations, or the create of its next relation.
PersistNext == \E r \in Entries : PersistEntities(r) \/ CreateRelation(r)

PersistSpec == PersistInit /\ [][PersistNext]_vars

\* --------------------------------------------------- self-hosted provider

\* settings.ollama_max_retries is at most this here.
MaxRetries == 2

\* What one HTTP attempt may end in: a timeout, any other HTTP error, a
\* 2xx answer whose body is no JSON, a 2xx answer with a JSON body.
AttemptOutcomes == {"timeout", "http_error", "garbled", "ok"}

\* A loop that tries again after every failed attempt.
RetryAfter_AnyError(outcome) == outcome \in {"timeout", "http_error"}

\* _perform_request: "except httpx.TimeoutException" lets the loop go on,
\* "except httpx.HTTPError" breaks out of it.
RetryAfter(outcome) == outcome = "timeout"

\* The text of the model's answer: whether it holds a "{" and a "}",
\* whether it comes in a code fence, whether the object between the braces
\* is JSON, whether its "entities" and "relations" are lists, and the
\* members of the two.
AnswerText(braces, fenced, json, lists, entities, relations) ==
    [braces |-> braces, fenced |-> fenced, json |-> json, lists |-> lists,
     entities |-> entities, relations |-> relations]

\* An answer of prose, an answer that is a JSON object, the same in a
\* fence, and an object whose "entities" is null.
Prose == AnswerText(FALSE, FALSE, "invalid", FALSE, <<>>, <<>>)
BrokenObject == AnswerText(TRUE, FALSE, "invalid", FALSE, <<>>, <<>>)
Object(entities, relations) == AnswerText(TRUE, FALSE, "object", TRUE, entities, relations)
Fenced(text) == [text EXCEPT !.fenced = TRUE]
NullEntities(relations) == AnswerText(TRUE, FALSE, "object", FALSE, <<>>, relations)

\* Members of a "relations" list: from the entry to a name, and one
\* without a target.
MentionsObj == Relation(EntryId(1), BRIAN, MENTIONS)
NoTargetObj == Relation(EntryId(1), <<>>, MENTIONS)

\* Relation.model_validate(obj) raises: source, target and relationType
\* have min_length 1.
RelationValidateRaises(obj) ==
    obj.source = <<>> \/ obj.target = <<>> \/ obj.relationType = <<>>

\* Entity.model_validate(payload) raises, on a payload that is no dict too.
EntityPayloadRaises(obj) == ~obj.dict \/ ModelValidateRaises(obj)

\* The JSON body of a 2xx answer: a list, or an object whose "response" is
\* missing, null, or a text.
ArrayBody == [kind |-> "array", response |-> None, null |-> FALSE]
NoResponseBody == [kind |-> "object", response |-> None, null |-> FALSE]
NullResponseBody == [kind |-> "object", response |-> None, null |-> TRUE]
TextBody(text) == [kind |-> "object", response |-> Some(text), null |-> FALSE]

\* _clean_response(raw): the fence and what surrounds the braces go; a text
\* without braces raises.
clean_response_raises(text) == ~text.braces
clean_response(text) == [text EXCEPT !.fenced = FALSE]

\* A parse that stops taking entities at the first invalid payload.
KeptEntities_UntilInvalid(payloads) ==
    IF \E i \in DOMAIN payloads : EntityPayloadRaises(payloads[i])
    THEN SubSeq(payloads, 1,
                (CHOOSE i \in DOMAIN payloads :
                    /\ EntityPayloadRaises(payloads[i])
                    /\ \A j \in 1..(i - 1) : ~EntityPayloadRaises(payloads[j])) - 1)
    ELSE payloads

\* OllamaProvider._parse_response, its two loops: the payloads that
\* model_validate accepts, in order.
KeptEntities(payloads) == SelectSeq(payloads, LAMBDA obj : ~EntityPayloadRaises(obj))
KeptRelations(payloads) == SelectSeq(payloads, LAMBDA obj : ~RelationValidateRaises(obj))

\* OllamaProvider._parse_response(cleaned): the result, or the exception.
ollama_parse_response(text) ==
    LET entities == KeptEntities(text.entities)
        relations == KeptRelations(text.relations)
    IN  IF text.json # "object" \/ ~text.lists
           \/ (entities = <<>> /\ relations = <<>>)
        THEN [raises |-> "ExtractionProviderError", result |-> EmptyResult]
        ELSE [raises |-> "none",
              result |-> [entities |-> [i \in DOMAIN entities |->
                                           ModelValidate(entities[i], <<"uuid", 0, i>>)],
                          relations |-> relations]]

\* extract after _perform_request returned body: response_json.get on a
\* list and raw.strip() on None raise an AttributeError, a missing
\* "response" reads as "", which has no braces.
AfterRequest(body) ==
    IF body.kind = "array" \/ body.null
    THEN [raises |-> "AttributeError", result |-> EmptyResult]
    ELSE IF ~body.response.some \/ clean_response_raises(body.response.v)
    THEN [raises |-> "ExtractionProviderError", result |-> EmptyResult]
    ELSE ollama_parse_response(clean_response(body.response.v))

\* _prepare_text: the entry's text, else the metadata's "text", else the
\* entry's own metadata's "raw_text".
prepare_text(entry, metadata) ==
    IF EntryText(entry) # <<>> THEN EntryText(entry)
    ELSE IF Truthy(metadata) /\ GetText(metadata) # <<>> THEN GetText(metadata)
    ELSE IF Truthy(entry.metadata) /\ "raw_text" \in DOMAIN entry.metadata.v
    THEN entry.metadata.v["raw_text"]
    ELSE <<>>

\* The entries, metadata and bodies the provider meets here.
OllamaEntries ==
    {[id |-> EntryId(1), content |-> Some(<<BRIAN, MET>>), summary |-> None,
      metadata |-> None],
     [id |-> EntryId(1), content |-> None, summary |-> None, metadata |-> None],
     [id |-> EntryId(1), content |-> None, summary |-> Some(<<>>),
      metadata |-> Some([raw_text |-> <<BRIAN>>])]}

OllamaMetadata == {None, Some([text |-> <<BRIAN, MET>>])}

AnswerTexts ==
    {Prose, BrokenObject, Object(<<>>, <<>>), Object(<<PersonObj>>, <<>>),
     Fenced(Object(<<PersonObj>>, <<MentionsObj>>)),
     Object(<<HumanObj, PersonObj, StringItem>>, <<NoTargetObj, MentionsObj>>),
     Object(<<BareEntryObj>>, <<NoTargetObj>>),
     Object(<<HumanObj>>, <<MentionsObj>>),
     NullEntities(<<MentionsObj>>)}

Bodies ==
    {ArrayBody, NoResponseBody, NullResponseBody} \cup {TextBody(t) : t \in AnswerTexts}

\* OllamaProvider.extract(entry, metadata) is called, max_retries being
\* what the settings say.
OllamaInit ==
    /\ ServiceInit
    /\ RegistryNew(OLLAMA)
    /\ ~extraction_allow_fallback /\ ~allow_fallback
    /\ nodes = <<>>
    /\ edges = {}
    /\ given = <<>>
    /\ \E entry \in OllamaEntries, metadata \in OllamaMetadata, n \in 0..MaxRetries :
          call = [NoCall EXCEPT !.op = "extract", !.state = "called",
                                !.key = "OllamaProvider",
                                !.args = <<entry, metadata, n>>]

\* extract up to the loop of _perform_request: _prepare_text raises when
\* there is no text.
OllamaPrepare ==
    /\ call.op = "extract" /\ call.key = "OllamaProvider" /\ call.state = "called"
    /\ IF prepare_text(call.args[1], call.args[2]) = <<>>
       THEN call' = [call EXCEPT !.state = "raised",
                                 !.raised = <<"ExtractionProviderError">>]
       ELSE call' = [call EXCEPT !.state = "requesting"]
    /\ UNCHANGED <<registryVars, serviceVars, nodes, edges, given>>

\* One turn of the loop of _perform_request: the POST times out and the
\* loop goes on; it fails otherwise and the function raises; the body of
\* its answer does not decode and response.json() raises; or the body is
\* returned and extract cleans and parses it.
OllamaAttempt ==
    /\ call.key = "OllamaProvider" /\ call.state = "requesting"
    /\ Len(call.tokens) < call.args[3]
    /\ \E outcome \in AttemptOutcomes :
          LET tried == [call EXCEPT !.tokens = Append(@, outcome)]
          IN  IF RetryAfter(outcome) THEN call' = tried
              ELSE IF outcome = "http_error"
              THEN call' = [tried EXCEPT !.state = "raised",
                                         !.raised = <<"ExtractionProviderError">>]
              ELSE IF outcome = "garbled"
              THEN call' = [tried EXCEPT !.state = "raised",
                                         !.raised = <<"JSONDecodeError">>]
              ELSE \E body \in Bodies :
                      LET done == AfterRequest(body)
                      IN  call' = [tried EXCEPT
                                      !.mapped = <<body>>,
                                      !.state = IF done.raises = "none" THEN "returned"
                                                ELSE "raised",
                                      !.raised = IF done.raises = "none" THEN <<>>
                                                 ELSE <<done.raises>>,
                                      !.ret = IF done.raises = "none" THEN <<done.result>>
                                              ELSE <<>>]
    /\ UNCHANGED <<registryVars, serviceVars, nodes, edges, given>>

\* The loop of _perform_request has run out of attempts: the raise after
\* it.
OllamaGiveUp ==
    /\ call.key = "OllamaProvider" /\ call.state = "requesting"
    /\ Len(call.tokens) >= call.args[3]
    /\ call' = [call EXCEPT !.state = "raised", !.raised = <<"ExtractionProviderError">>]
    /\ UNCHANGED <<registryVars, serviceVars, nodes, edges, given>>

OllamaNext == OllamaPrepare \/ OllamaAttempt \/ OllamaGiveUp

OllamaSpec == OllamaInit /\ [][OllamaNext]_vars

\* The interpreter goes on running the call.
OllamaFairSpec == OllamaSpec /\ WF_vars(OllamaNext)

\* ------------------------------------------------------------------ claims

\* Shorthands over a request's history.
IngestCalled(r) == req[r].via \in {"http", "direct"}
InDispatcher(r) == ctx[r] \in {"dispatch_inline", "dispatch_bg"}
Count(l, e) == Cardinality({i \in DOMAIN l : l[i] = e})
\* Every provider call of the history comes after ingest_entry's return.
NoExtractBeforeReturn(l) ==
    \A i \in Pos(l, "extract") : \E j \in Pos(l, "return") : j < i

\* C1 as stated: whenever ingest_entry has returned "queued", no provider
\* extract call of that entry started before the return, with or without a
\* scheduler.
C1_QueuedBeforeExtract_AnyScheduler ==
    \A r \in Reqs :
        (IngestCalled(r) /\ resp[r] = "queued") => NoExtractBeforeReturn(log[r])

\* C1 amended: whenever ingest_entry was given a scheduler and has returned
\* "queued", no provider extract call of that entry started before the
\* return; the task is in the scheduler's queue or was taken from it later.
C1_QueuedBeforeExtract ==
    \A r \in Reqs :
        (IngestCalled(r) /\ resp[r] = "queued" /\ req[r].scheduler) =>
            /\ NoExtractBeforeReturn(log[r])
            /\ Has(log[r], "add_task")
            /\ pc[r] = "queued" => ~Has(log[r], "extract")

\* C1 witness: a deferred request with a scheduler whose provider has been
\* called since.
C1_Witness ==
    \E r \in Reqs :
        /\ IngestCalled(r) /\ resp[r] = "queued" /\ req[r].scheduler
        /\ Has(log[r], "extract")

\* C2: ingest_entry runs the pipeline itself and returns "processed" exactly
\* when force_sync is set or the fallback setting is off; otherwise it goes
\* through the dispatcher's enqueue and returns "queued".
C2_ModeDecision ==
    \A r \in Reqs :
        IngestCalled(r) =>
            LET sync == req[r].force_sync \/ ~extraction_allow_fallback
            IN  /\ (ctx[r] = "service") <=> sync
                /\ Has(log[r], "enqueue") <=> ~sync
                /\ resp[r] = "processed" => sync
                /\ resp[r] = "queued" => ~sync
                /\ (sync /\ pc[r] = "done" /\ err[r] = "none") => resp[r] = "processed"
                /\ (~sync /\ pc[r] \in {"queued", "done"}) => resp[r] = "queued"

\* C2 witness: a request answered "processed" without force_sync, because
\* the fallback setting is off.
C2_Witness ==
    \E r \in Reqs :
        IngestCalled(r) /\ resp[r] = "processed" /\ ~req[r].force_sync

\* C3: under the default setting (extraction_allow_fallback = False) a POST
\* /graph/entries without process_synchronously is answered 202 "queued"
\* and its provider calls all come after the answer.
C3_DeferredByDefault ==
    \A r \in Reqs :
        (/\ extraction_allow_fallback = FALSE
         /\ req[r].via = "http"
         /\ ~req[r].force_sync
         /\ pc[r] # "idle") =>
            /\ ctx[r] # "service"
            /\ http[r] # 0 => (http[r] = 202 /\ resp[r] = "queued")
            /\ NoExtractBeforeReturn(log[r])

\* Ids of the nodes derived from the entry of request r, and the edges that
\* touch them or the entry.
DerivedIds(r) == {i \in DOMAIN nodes : i[1] = "id" /\ i[2] = r /\ i[3] # 0}
EdgesOf(r) ==
    {e \in edges : e.source \in DerivedIds(r) \cup {EntryId(r)}
                   \/ e.target \in DerivedIds(r) \cup {EntryId(r)}}
DerivedWrites(l) ==
    Pos(l, "bulk_entities") \cup Pos(l, "bulk_relations")
        \cup Pos(l, "relation_created") \cup Pos(l, "relation_skipped")
\* A node of the entry's id that carries the ENTRY graph label.
EntryStored(r) ==
    /\ EntryId(r) \in DOMAIN nodes
    /\ "ENTRY" \in nodes[EntryId(r)].glabels

\* C4: within one entry the ENTRY node is persisted before any derived
\* entity or relation is written, inline and deferred alike: every bulk
\* write of the entry's history comes after its upsert, and whenever a
\* derived node or an edge of the entry is in the store, so is the entry.
C4_EntryBeforeDerived ==
    \A r \in Reqs :
        /\ \A i \in DerivedWrites(log[r]) : \E j \in Pos(log[r], "upsert_entry") : j < i
        /\ (DerivedWrites(log[r]) # {} \/ DerivedIds(r) # {} \/ EdgesOf(r) # {}) =>
               EntryStored(r)

\* C4 witness: a deferred request whose background task has written a
\* derived node and an edge.
C4_Witness ==
    \E r \in Reqs :
        /\ ctx[r] = "dispatch_bg"
        /\ DerivedIds(r) # {}
        /\ EdgesOf(r) # {}

\* C5: once ingest_entry has been called the ENTRY node is in the store, in
\* every later state: while extraction runs, after it succeeded, after it
\* raised inline and after it failed in the background.
C5_EntryAlwaysPersisted ==
    \A r \in Reqs : IngestCalled(r) => EntryStored(r)

\* C5 witness: an inline extraction has raised out of ingest_entry and the
\* entry is stored.
C5_Witness ==
    \E r \in Reqs :
        /\ IngestCalled(r) /\ ctx[r] = "service" /\ pc[r] = "done"
        /\ err[r] # "none" /\ resp[r] = err[r]
        /\ EntryStored(r)

\* Every observer was told e exactly once, in the order of registration.
NotifiedOnce(l, e, arg) == \A o \in Observers : Count(l, Ev(e, o, arg)) = 1
PrimaryRaised(l, e) == Has(l, "provider_raised") /\ Ev("provider_raised", 0, e) \in Range(l)

\* C6: with fallback disabled, a primary provider that raises
\* ExtractionProviderError makes run re-raise that error, notify every
\* observer of the failure and none of a success, and never call the
\* fallback provider.
C6_DisabledFallbackReraises ==
    \A r \in Reqs :
        (~allow_fallback /\ PrimaryRaised(log[r], "EPE_primary")) =>
            /\ Count(log[r], Ev("run_raise", 0, "EPE_primary")) = 1
            /\ err[r] = "EPE_primary"
            /\ NotifiedOnce(log[r], "on_failure", "EPE_primary")
            /\ ~Has(log[r], "on_success")
            /\ ~Has(log[r], "run_return")
            /\ Ev("extract", 0, "fallback") \notin Range(log[r])

\* C6 witness: fallback disabled and run has re-raised the primary's
\* provider error.
C6_Witness ==
    \E r \in Reqs :
        ~allow_fallback /\ Ev("run_raise", 0, "EPE_primary") \in Range(log[r])

\* C7: with fallback enabled, when the primary provider raises
\* ExtractionProviderError and the local provider returns a result, run
\* returns that result, every observer is notified of success with it and
\* none of a failure.
C7_FallbackResultReturned ==
    \A r \in Reqs : \A rid \in ResultIds :
        (/\ allow_fallback
         /\ PrimaryRaised(log[r], "EPE_primary")
         /\ Ev("provider_returned", 0, rid) \in Range(log[r])) =>
            /\ Count(log[r], Ev("extract", 0, "fallback")) = 1
            /\ Count(log[r], Ev("run_return", 0, rid)) = 1
            /\ result[r] = rid
            /\ NotifiedOnce(log[r], "on_success", rid)
            /\ Cardinality(Pos(log[r], "on_success")) = NObs
            /\ ~Has(log[r], "on_failure")
            /\ ~Has(log[r], "run_raise")

\* C7 witness: the fallback has returned a result with entities after the
\* primary's provider error.
C7_Witness ==
    \E r \in Reqs :
        /\ allow_fallback
        /\ PrimaryRaised(log[r], "EPE_primary")
        /\ Ev("run_return", 0, "local") \in Range(log[r])

\* C8: when the primary provider raises anything but
\* ExtractionProviderError, run notifies the observers of the failure and
\* re-raises it without calling the fallback provider, allow_fallback or
\* not.
C8_FallbackOnlyOnProviderError ==
    \A r \in Reqs :
        PrimaryRaised(log[r], "OTHER_primary") =>
            /\ Ev("extract", 0, "fallback") \notin Range(log[r])
            /\ NotifiedOnce(log[r], "on_failure", "OTHER_primary")
            /\ ~Has(log[r], "on_success")
            /\ Count(log[r], Ev("run_raise", 0, "OTHER_primary")) = 1
            /\ err[r] = "OTHER_primary"

\* C8 witness: fallback enabled and run has re-raised the primary's other
\* exception.
C8_Witness ==
    \E r \in Reqs :
        allow_fallback /\ Ev("run_raise", 0, "OTHER_primary") \in Range(log[r])

\* C9: an exception of pipeline.run inside the dispatcher never reaches the
\* caller and the completion callback is not invoked: the inline enqueue
\* returns, the scheduled task ends normally, and the history holds no
\* on_complete.
C9_BackgroundIsolation ==
    \A r \in Reqs :
        (InDispatcher(r) /\ Has(log[r], "run_raise")) =>
            /\ ~Has(log[r], "on_complete")
            /\ ~Has(log[r], "raise")
            /\ ~Has(log[r], "task_crash")
            /\ pc[r] = "done" =>
                  /\ Has(log[r], "caught")
                  /\ ctx[r] = "dispatch_inline" =>
                        (resp[r] \in {"queued", "enqueued"}
                         /\ log[r][Len(log[r])].ev = "return")
                  /\ ctx[r] = "dispatch_bg" => log[r][Len(log[r])].ev = "task_done"

\* C9 witness: a scheduled task whose run raised an exception other than a
\* provider error has ended.
C9_Witness ==
    \E r \in Reqs :
        /\ ctx[r] = "dispatch_bg" /\ pc[r] = "done"
        /\ Ev("run_raise", 0, "OTHER_primary") \in Range(log[r])

\* C10: when run succeeds in the dispatcher and on_complete was given, it
\* is invoked exactly once, with run's result, after run returned; it is
\* invoked for no run that raised.
C10_OnCompleteOnce ==
    \A r \in Reqs :
        InDispatcher(r) =>
            /\ (Has(log[r], "run_return") /\ req[r].on_complete # "none" /\ pc[r] # "ran") =>
                  /\ Count(log[r], Ev("on_complete", 0, result[r])) = 1
                  /\ Cardinality(Pos(log[r], "on_complete")) = 1
                  /\ \A i \in Pos(log[r], "on_complete") :
                        \E j \in Pos(log[r], "run_return") :
                            j < i /\ log[r][j].arg = log[r][i].arg
            /\ Has(log[r], "run_raise") => ~Has(log[r], "on_complete")
            /\ Has(log[r], "on_complete") => Has(log[r], "run_return")

\* C10 witness: a callback has been invoked with the result of a run in a
\* scheduled task.
C10_Witness ==
    \E r \in Reqs :
        /\ ctx[r] = "dispatch_bg" /\ req[r].on_complete = "callback"
        /\ Ev("on_complete", 0, "llm") \in Range(log[r])

\* The history of r ends with the return of its entry point.
ReturnedLast(l) == l # <<>> /\ l[Len(l)].ev = "return"

\* C11: enqueue with a scheduler appends exactly one pipeline invocation to
\* the scheduler's queue and returns with no provider call made; without a
\* scheduler nothing is queued, and when enqueue returns pipeline.run has
\* already returned or raised and nothing of the run follows the return.
C11_EnqueueQueuesOrRunsInline ==
    \A r \in Reqs :
        Has(log[r], "enqueue") =>
            /\ req[r].scheduler =>
                  /\ Cardinality(Pos(log[r], "add_task")) = 1
                  /\ NoExtractBeforeReturn(log[r])
                  /\ pc[r] = "queued" =>
                        /\ tasks[r] = <<Task(r, req[r].on_complete)>>
                        /\ ReturnedLast(log[r])
                        /\ ~Has(log[r], "extract")
                  /\ pc[r] # "queued" => tasks[r] = <<>>
            /\ ~req[r].scheduler =>
                  /\ ~Has(log[r], "add_task")
                  /\ tasks[r] = <<>>
                  /\ ctx[r] = "dispatch_inline"
                  /\ pc[r] # "done" => ~Has(log[r], "return")
                  /\ Has(log[r], "return") =>
                        /\ ReturnedLast(log[r])
                        /\ Cardinality(Pos(log[r], "return")) = 1
                        /\ \E i \in Pos(log[r], "run_return") \cup Pos(log[r], "run_raise") :
                              \A j \in Pos(log[r], "return") : i < j

\* C11 witness: an enqueue without a scheduler has returned after an inline
\* run that persisted a result.
C11_Witness ==
    \E r \in Reqs :
        /\ Has(log[r], "enqueue") /\ ~req[r].scheduler
        /\ Has(log[r], "relation_created")
        /\ ReturnedLast(log[r])

\* The relation a create call was handed and its type as the gate sees it.
CreateArg(c) == c.args[1]
GateInput(c) == Upper(CreateArg(c).relationType)

\* C12 as stated: create rejects every relation whose relationType does not
\* match the pattern with a validation failure.
C12_RejectsEveryNonMatching ==
    (call.op = "create" /\ ~RELATION_NAME_PATTERN(CreateArg(call).relationType)) =>
        call.state = "raised"

\* C12 amended: create rejects exactly the relations whose upper-cased
\* relationType does not match the pattern; a rejected create interpolates
\* nothing, runs no query and leaves nodes and edges as they were; an
\* accepted one interpolates the upper-cased type.
C12_RejectsAfterUpper ==
    [][call'.op = "create" =>
          /\ ~RELATION_NAME_PATTERN(GateInput(call')) =>
                /\ call'.state = "raised"
                /\ call'.tokens = <<>>
                /\ call'.ret = <<>>
                /\ nodes' = nodes
                /\ edges' = edges
          /\ RELATION_NAME_PATTERN(GateInput(call')) =>
                /\ call'.state = "returned"
                /\ call'.tokens = <<GateInput(call')>>]_vars

\* C12 witness: a create of "FOO; DELETE ALL" between stored nodes has
\* raised, after an earlier call wrote an edge.
C12_Witness ==
    /\ call.op = "create" /\ call.state = "raised"
    /\ CreateArg(call) = Relation(EntryId(1), EntryId(1), FOO_DELETE_ALL)
    /\ edges # {}

\* C13: after any sequence of create, bulk_create and _persist_extraction
\* calls with upper-case, lower-case, line-broken and hostile type strings,
\* every edge of the store has a type name that matches the pattern, and so
\* does every token the call interpolated into a query string.
C13_OnlyPatternTypes ==
    /\ \A e \in edges : RELATION_NAME_PATTERN(e.type)
    /\ \A i \in DOMAIN call.tokens : RELATION_NAME_PATTERN(call.tokens[i])

\* C13 witness: a _persist_extraction whose relations had a lower-case type
\* and a refused one has returned, one edge written and one relation
\* refused.
C13_Witness ==
    /\ call.op = "persist" /\ call.state = "returned"
    /\ call.tokens = <<MENTIONS>>
    /\ call.raised = <<FALSE, TRUE>>
    /\ call.args[1].relationType = MENTIONS_LOWER
    /\ edges # {}

\* create(rel) failed to create an edge: the type was refused, or an endpoint
\* is not the id of a stored entity.
CreationFailed(c, i) ==
    \/ c.raised[i]
    \/ c.mapped[i].source \notin DOMAIN nodes
    \/ c.mapped[i].target \notin DOMAIN nodes

\* C14: bulk_create processes every relation of its list and returns exactly
\* the successfully created edges: a relation whose creation fails is absent
\* from the returned list and has no edge, every other relation is in the
\* list and has its edge.
C14_BulkReturnsCreated ==
    call.op \in {"bulk_create", "persist"} =>
        /\ Len(call.mapped) = Len(call.args)
        /\ \A i \in DOMAIN call.mapped :
              IF CreationFailed(call, i)
              THEN /\ call.mapped[i] \notin Range(call.ret)
                   /\ EdgeOf(call.mapped[i]) \notin edges
              ELSE /\ call.mapped[i] \in Range(call.ret)
                   /\ EdgeOf(call.mapped[i]) \in edges

Edge(s, ty, t) == [source |-> s, type |-> ty, target |-> t]

\* The edges the result of request r stands for: names replaced by the ids
\* of the entities that carry them, the refused type left out.
IntendedEdges(r, rid) ==
    CASE rid = "local" -> {Edge(EntryId(r), MENTIONS, DerivedId(r, 1))}
      [] rid = "llm" -> {Edge(EntryId(r), MENTIONS, DerivedId(r, 1)),
                         Edge(DerivedId(r, 1), Upper(KNOWS), DerivedId(r, 2))}
      [] rid = "clash" -> {Edge(EntryId(r), MENTIONS, EntryId(r))}
      [] OTHER -> {}

\* C15: every edge written has the ids of stored nodes at both ends, never
\* a name; once _persist_extraction has gone through a result's relations,
\* the edges of that entry are the intended ones: each name rewritten to the
\* stored id of the entity of that name, the entry id as it was.
C15_EndpointsResolved ==
    /\ \A e \in edges :
          /\ e.source \in DOMAIN nodes /\ e.target \in DOMAIN nodes
          /\ e.source[1] = "id" /\ e.target[1] = "id"
    /\ \A r \in Reqs :
          (Has(log[r], "bulk_relations") /\ pc[r] = "done") =>
              /\ EdgesOf(r) = IntendedEdges(r, result[r])
              /\ \A e \in EdgesOf(r) : \A n \in {e.source, e.target} :
                    n = EntryId(r) \/ nodes[n].name = NameStr(n[3])

\* C15 witness: the persistence of a result that names its endpoints has
\* finished and left two edges.
C15_Witness ==
    \E r \in Reqs :
        /\ result[r] = "llm" /\ pc[r] = "done" /\ Has(log[r], "bulk_relations")
        /\ Cardinality(EdgesOf(r)) = 2

\* The properties upsert writes for e.
PropertiesOf(e) == [name |-> e.name, system_labels |-> e.system_labels,
                    json |-> SerializeEntity(e)]
PropertiesIn(node) == [name |-> node.name, system_labels |-> node.system_labels,
                       json |-> node.json]

\* C16: after any sequence of upsert and bulk_create calls the store holds
\* exactly one Entity node for each id it holds; after an upsert that node's
\* properties are those of that one upsert; and upserting the same entity
\* again changes nothing in the store.
C16_UpsertIdempotent ==
    /\ [](\A id \in DOMAIN nodes : nodes[id].copies = 1)
    /\ [](call.op = "upsert" =>
              PropertiesIn(nodes[call.key]) = PropertiesOf(call.args[1]))
    /\ [][(call.op = "upsert" /\ call'.op = "upsert" /\ call'.args = call.args) =>
              nodes' = nodes]_vars

\* C16 witness: an upsert of the entry's id over a node that bulk_create
\* had written with other labels and fields, the second node stored too.
C16_Witness ==
    /\ call.op = "upsert" /\ call.key = EntityA
    /\ call.args[1].json = RichNested
    /\ "PERSON" \in nodes[EntityA].glabels
    /\ "PERSON" \notin nodes[EntityA].system_labels
    /\ EntityB \in DOMAIN nodes

\* C17: no upsert or bulk_create takes a graph label off a node, and every
\* node carries each system label ever handed over for its id: after
\* {ENTRY} and then {ENTRY, PERSON} it carries ENTRY and PERSON.
C17_LabelsOnlyGrow ==
    /\ [][\A id \in DOMAIN nodes :
             id \in DOMAIN nodes' /\ nodes[id].glabels \subseteq nodes'[id].glabels]_vars
    /\ [](\A id \in DOMAIN nodes :
             id \in DOMAIN given /\ given[id] \subseteq nodes[id].glabels)

\* C17 witness: the node was upserted without ENTRY after an upsert with
\* it, and carries ENTRY and PERSON.
C17_Witness ==
    /\ call.op = "upsert" /\ call.key = EntityA
    /\ call.args[1].system_labels = {"ENTITY", "PERSON"}
    /\ {"ENTRY", "PERSON"} \subseteq nodes[EntityA].glabels

\* C18: the system_labels of the entity that upsert returns or get reads
\* back contain every system label handed over in an upsert of that id so
\* far.
C18_SystemLabelsAdditive ==
    (call.op \in {"upsert", "get"} /\ call.ret # <<>>) =>
        given[call.key] \subseteq call.ret[1].system_labels

\* Every value inside the metadata dict is one JSON has a value for.
JsonNative(js) ==
    \A f \in JSON_FIELDS : \A i \in DOMAIN js[f].slots :
        js[f].slots[i].type = "Any" => js[f].slots[i].v[1] \notin NonJsonTypes

\* The step from an upsert's return to a get of the same id.
UpsertThenGet == call.op = "upsert" /\ call'.op = "get" /\ call'.key = call.key

\* C19 as stated: for any entity, a get that follows the upsert of the
\* entity returns nested fields equal to the ones upserted.
C19_RoundTrip_AnyEntity ==
    [][UpsertThenGet =>
          /\ call'.state = "returned" /\ call'.ret # <<>>
          /\ call'.ret[1].json = call.args[1].json]_vars

\* C19 amended: for any entity whose metadata holds JSON values only, a get
\* that follows the upsert of the entity returns content, attachments,
\* embedding, metadata and observations equal to the ones upserted, and so
\* does the upsert itself.
C19_RoundTrip ==
    /\ [][(UpsertThenGet /\ JsonNative(call.args[1].json)) =>
              /\ call'.state = "returned" /\ call'.ret # <<>>
              /\ call'.ret[1].json = call.args[1].json]_vars
    /\ []((call.op = "upsert" /\ JsonNative(call.args[1].json)) =>
              call.ret[1].json = call.args[1].json)

\* C19 witness: a get has returned the entity with all five nested fields
\* set.
C19_Witness ==
    /\ call.op = "get" /\ call.state = "returned" /\ call.ret # <<>>
    /\ call.ret[1].json = RichNested

\* C20: a get of a node one of whose JSON properties does not decode
\* returns the entity, with the field's default in place of each such
\* property.
C20_CorruptFieldDefaults ==
    (call.op = "get" /\ call.key \in DOMAIN nodes) =>
        \A f \in JSON_FIELDS :
            nodes[call.key].json[f].kind = "garbage" =>
                /\ call.state = "returned" /\ call.ret # <<>>
                /\ call.ret[1].json[f] = DefaultOf(f)

\* ------------------------------------------------- claims on construction

\* The elements of s at the positions in keep, in the order of s.
Pick(s, keep) ==
    LET upto[i \in 0..Len(s)] ==
            IF i = 0 THEN <<>>
            ELSE IF i \in keep THEN Append(upto[i - 1], s[i]) ELSE upto[i - 1]
    IN  upto[Len(s)]

NoRepeat(s) == \A i, j \in DOMAIN s : s[i] = s[j] => i = j

\* The constructor was called and returned an entity.
Constructed == call.op = "Entity" /\ call.state = "returned" /\ call.ret # <<>>

\* The first occurrences of the system labels handed over, in their order.
FirstSystemLabels(values) ==
    Pick(values, {i \in DOMAIN values : \A j \in 1..(i - 1) : values[j] # values[i]})

\* C21: whatever list of system labels the constructor is handed, the entity
\* it returns has ENTITY among its system labels and no label twice; when the
\* caller's list had no ENTITY the result is ENTITY followed by the caller's
\* labels, and in every case the caller's labels stand in the order of their
\* first occurrences.
C21_SystemLabelsNormalized ==
    Constructed =>
        LET values == call.args[1].system_labels
            out == call.ret[1].system_labels
        IN  /\ "ENTITY" \in Range(out)
            /\ NoRepeat(out)
            /\ out = IF "ENTITY" \in Range(values)
                     THEN FirstSystemLabels(values)
                     ELSE <<"ENTITY">> \o FirstSystemLabels(values)

\* An entity built from a list without ENTITY that names a label twice.
C21_Witness ==
    /\ Constructed
    /\ call.args[1].system_labels = <<"PERSON", "ENTRY", "PERSON">>
    /\ call.ret[1].system_labels = <<"ENTITY", "PERSON", "ENTRY">>

\* The labels handed over, trimmed.
Trimmed(values) == [i \in DOMAIN values |-> Strip(values[i])]

\* C22: the labels of a constructed entity are the trimmed labels handed
\* over, without the blank ones and without any that equals an earlier one
\* when case is ignored, in the order handed over; no two of them are equal
\* when case is ignored and none is empty.
C22_LabelsNormalized ==
    Constructed =>
        LET t == Trimmed(call.args[1].labels)
            out == call.ret[1].labels
        IN  /\ out = Pick(t, {i \in DOMAIN t :
                                /\ t[i] # <<>>
                                /\ \A j \in 1..(i - 1) : Lower(t[j]) # Lower(t[i])})
            /\ NoRepeat([i \in DOMAIN out |-> Lower(out[i])])
            /\ \A i \in DOMAIN out : out[i] # <<>>

\* Labels that differ in case and spacing only, with a blank one between.
C22_Witness ==
    /\ Constructed
    /\ call.args[1].labels = <<<<"A", " ">>, <<" ">>, <<" ", "a">>>>
    /\ call.ret[1].labels = <<<<"A">>>>

\* The caller's arguments name ENTRY and give no content, no attachment and
\* no metadata.
EntryWithoutPayload(kw) ==
    /\ "ENTRY" \in Range(kw.system_labels)
    /\ kw.json["content"] = PyNone
    /\ kw.json["attachments"].slots = <<>>
    /\ kw.json["metadata"].slots = <<>>

\* C23: the constructor raises exactly when the system labels handed over
\* name ENTRY and content, attachments and metadata are all empty; with one
\* of them given, or without ENTRY, it returns the entity.
C23_EntryPayloadGuard ==
    (call.op = "Entity" /\ call.state # "called") =>
        (call.state = "raised" <=> EntryWithoutPayload(call.args[1]))

\* An ENTRY whose only payload is its metadata is constructed.
C23_Witness ==
    /\ Constructed
    /\ "ENTRY" \in Range(call.args[1].system_labels)
    /\ call.args[1].json["content"] = PyNone
    /\ call.args[1].json["attachments"].slots = <<>>
    /\ call.args[1].json["metadata"].slots # <<>>

\* An ENTRY without any payload is refused.
C23_Refused == call.op = "Entity" /\ call.state = "raised"

\* ------------------------------------------------ claims on the registry

\* The providers constructed for key k.
BuiltFor(k) == {i \in DOMAIN built : built[i].key = k}

\* C24: for the configured provider name every call of
\* get_extraction_provider returns the same instance, calls of concurrently
\* running threads included, and no more than one instance is ever
\* constructed for a key.
C24_SingleInstance ==
    /\ \A h1, h2 \in handed :
          (h1.op = "get_extraction_provider" /\ h2.op = "get_extraction_provider")
              => h1.inst = h2.inst
    /\ \A i, j \in DOMAIN built : built[i].key = built[j].key => i = j

Known == {OLLAMA, OPENAI, ANTHROPIC, LOCAL_PROVIDER}

\* C25: a configured name the registry does not know gives a local
\* provider; get_fallback_local returns a local provider that is cached
\* under the key local, under every configured name; calls made one after
\* the other return the same instance.
C25_UnknownAndFallbackLocal ==
    \A h \in handed :
        /\ (h.op = "get_extraction_provider" /\ ProviderKey(extraction_provider) \notin Known)
              => built[h.inst].class = "LocalLLMProvider"
        /\ h.op = "get_fallback_local" =>
              /\ built[h.inst].class = "LocalLLMProvider"
              /\ h.key = LOCAL_PROVIDER
              /\ LOCAL_PROVIDER \in DOMAIN instances
              /\ built[instances[LOCAL_PROVIDER]].class = "LocalLLMProvider"
              /\ ~h.raced => instances[LOCAL_PROVIDER] = h.inst
        /\ \A g \in handed : (g.op = h.op /\ ~g.raced /\ ~h.raced) => g.inst = h.inst

\* Under an unknown name both lookups were made, one after the other, and
\* the fallback twice: two local providers, one per key.
C25_Witness ==
    /\ extraction_provider = BOGUS
    /\ \E h \in handed : h.op = "get_extraction_provider" /\ ~h.raced
    /\ \E g, h \in handed :
          /\ g.op = "get_fallback_local" /\ h.op = "get_fallback_local"
          /\ g.nth # h.nth /\ ~g.raced /\ ~h.raced

\* ----------------------------------------------- claims on the providers

\* A cloud provider's call has ended.
CloudDone ==
    /\ call.op = "extract" /\ call.key \in {"OpenAIProvider", "AnthropicProvider"}
    /\ call.state # "called"

\* The provider has no API key, its HTTP call failed, or the answer is no
\* JSON object of valid entities with at least one entity or relation.
NoUsableAnswer(env) ==
    \/ ~env.api_key
    \/ env.http = "raises"
    \/ env.raw.json # "object"
    \/ \E i \in DOMAIN env.raw.entities :
          env.raw.entities[i].dict /\ ModelValidateRaises(env.raw.entities[i])
    \/ /\ \A i \in DOMAIN env.raw.entities : ~env.raw.entities[i].dict
       /\ env.raw.relations = <<>>

\* C26: when a cloud provider has no API key, when its HTTP call fails and
\* when the response cannot be parsed into a usable result, extract raises
\* nothing and returns the local provider's result for the same entry and
\* metadata.
C26_CloudNeverRaises ==
    (CloudDone /\ NoUsableAnswer(call.args[3])) =>
        /\ call.state = "returned"
        /\ call.ret[1] \in LocalResults(call.args[1], call.args[2], 1)

\* The entry has no content, no summary, and the metadata is absent, empty
\* or without a text.
NoInput(entry, metadata) ==
    /\ ~entry.content.some
    /\ ~Truthy(entry.summary)
    /\ ~metadata.some \/ GetText(metadata) = <<>>

LocalDone == call.op = "extract" /\ call.key = "LocalLLMProvider" /\ call.ret # <<>>

\* C27: for an entry without content body and summary, with the metadata
\* absent, empty or without a text, the local provider's extract raises
\* nothing and returns the empty result: no entities, no relations.
C27_LocalEmptyOnNoInput ==
    (call.op = "extract" /\ call.key = "LocalLLMProvider"
        /\ NoInput(call.args[1], call.args[2]))
    => /\ call.state # "raised"
       /\ \A i \in DOMAIN call.ret : call.ret[i] = EmptyResult

\* An entry without content and summary, handed over without metadata,
\* got the empty result.
C27_Witness ==
    /\ LocalDone
    /\ call.args[1].content = None /\ call.args[1].summary = None
    /\ call.args[2] = None
    /\ call.ret[1] = EmptyResult

\* What two results are compared on: the entities' names, labels and
\* system labels in order, and the relations' types in order.
Structure(r) ==
    [entities |-> [i \in DOMAIN r.entities |->
                      [name |-> r.entities[i].name, labels |-> r.entities[i].labels,
                       system_labels |-> r.entities[i].system_labels]],
     relations |-> [i \in DOMAIN r.relations |-> r.relations[i].relationType]]

\* C28: two runs of the local provider on the same entry return results of
\* the same structure: the same names in the same order, the same labels
\* and system labels for each entity, the same relation types.
C28_LocalDeterministic ==
    (call.op = "extract" /\ call.key = "LocalLLMProvider") =>
        \A i, j \in DOMAIN call.ret : Structure(call.ret[i]) = Structure(call.ret[j])

\* Two runs on a text with two names that sort against the order of the
\* text: the results differ in their ids and in nothing else.
C28_Witness ==
    /\ LocalDone /\ Len(call.ret) = 2
    /\ call.args[1].content = Some(<<HE, BRIAN>>)
    /\ Len(call.ret[1].entities) = 2
    /\ call.ret[1].entities[1].name = BRIAN
    /\ call.ret[1] # call.ret[2]

\* --------------------------------------------------- claims on deletion

\* The edges that start or end at the node of id.
Incident(es, id) == {e \in es : e.source = id \/ e.target = id}

\* C29: a step of delete(id) leaves no node of that id and no edge that
\* starts or ends at it, leaves every other node and every other edge as
\* it was, and returns true exactly when the store held a node of that id.
C29_DetachDelete ==
    [][call'.op = "delete" =>
          LET id == call'.key
          IN  /\ id \notin DOMAIN nodes'
              /\ Incident(edges', id) = {}
              /\ DOMAIN nodes' = DOMAIN nodes \ {id}
              /\ \A i \in DOMAIN nodes' : nodes'[i] = nodes[i]
              /\ edges' = edges \ Incident(edges, id)
              /\ call'.ret = <<id \in DOMAIN nodes>>]_vars

\* A node with an edge to it, an edge from it and a loop was deleted, and
\* another node with its own loop is still there.
C29_Witness ==
    /\ call.op = "delete" /\ call.key = EntityA /\ call.ret = <<TRUE>>
    /\ EntityA \notin DOMAIN nodes
    /\ EntityB \in DOMAIN nodes
    /\ edges = {[source |-> EntityB, type |-> MENTIONS, target |-> EntityB]}

\* A delete of an id the store does not hold returned false.
C29_Missing == call.op = "delete" /\ call.ret = <<FALSE>> /\ nodes # <<>>

\* ------------------------------------------------ claims on the route

\* The route has handed its payload to the use case.
Routed == call.op = "ingest_entry" /\ call.state # "called"

\* C30: the metadata the use case is handed has submitted_by equal to the
\* authenticated caller's address, whatever metadata the client sent, and
\* the request object is after the call what it was before.
C30_SubmittedByIsCaller ==
    Routed =>
        /\ "submitted_by" \in DOMAIN call.mapped[1].metadata
        /\ call.mapped[1].metadata["submitted_by"] = call.args[2]
        /\ call.args[1] = given[1]

\* What does hold: the request object is never written, and a request
\* that names no submitter is handed over under the caller's address.
C30_SubmittedByDefault ==
    Routed =>
        /\ call.args[1] = given[1]
        /\ "submitted_by" \notin DOMAIN given[1].metadata
              => call.mapped[1].metadata["submitted_by"] = call.args[2]

\* -------------------------------------------- claims on failing extraction

\* run has raised an ExtractionProviderError in the history l.
RunRaisedProviderError(l) ==
    \E i \in Pos(l, "run_raise") : IsExtractionProviderError(l[i].arg)

\* C31: when the pipeline run that ingest_entry makes inline raises an
\* ExtractionProviderError, POST /graph/entries is never answered 202 and
\* is answered 502; and a 202 that was sent stays the answer whatever the
\* background task of the request does later.
C31_ProviderErrorIs502 ==
    /\ [](\A r \in Reqs :
            (req[r].via = "http" /\ ctx[r] = "service" /\ RunRaisedProviderError(log[r]))
                => /\ http[r] # 202
                   /\ pc[r] = "done" => http[r] = 502)
    /\ [][\A r \in Reqs : http[r] = 202 => http'[r] = 202]_vars

\* The route has answered 502 after an inline run that raised.
C31_Witness ==
    \E r \in Reqs :
        /\ req[r].via = "http" /\ ctx[r] = "service" /\ http[r] = 502
        /\ RunRaisedProviderError(log[r])

\* The route has answered 202 and the background run of the same request
\* has raised a provider error since.
C31_DeferredFailure ==
    \E r \in Reqs :
        /\ req[r].via = "http" /\ http[r] = 202 /\ ctx[r] = "dispatch_bg"
        /\ RunRaisedProviderError(log[r])

\* C32: with fallback enabled, when the primary provider raises
\* ExtractionProviderError and the local provider called in its place
\* raises too, run tells every observer of a failure exactly once, with the
\* fallback's error, tells none of a success, and raises the fallback's
\* error.
C32_FallbackFailureReraised ==
    \A r \in Reqs : \A e \in FallbackErrors :
        (/\ allow_fallback
         /\ PrimaryRaised(log[r], "EPE_primary")
         /\ PrimaryRaised(log[r], e)) =>
            /\ NotifiedOnce(log[r], "on_failure", e)
            /\ Cardinality(Pos(log[r], "on_failure")) = NObs
            /\ ~Has(log[r], "on_success")
            /\ Count(log[r], Ev("run_raise", 0, e)) = 1
            /\ Cardinality(Pos(log[r], "run_raise")) = 1
            /\ ~Has(log[r], "run_return")
            /\ err[r] = e

\* Both providers have raised, the local one an error that is no
\* ExtractionProviderError.
C32_Witness ==
    \E r \in Reqs :
        /\ allow_fallback
        /\ PrimaryRaised(log[r], "EPE_primary")
        /\ Ev("run_raise", 0, "OTHER_fallback") \in Range(log[r])

\* The notifications observer o got in the history l.
Notifications(l, o) == {i \in DOMAIN l : l[i].ev \in {"on_success", "on_failure"} /\ l[i].who = o}

\* pipeline.run has ended in the history l.
RunEnded(l) == Has(l, "run_return") \/ Has(l, "run_raise")

\* C38: in a call of run no observer is told twice and each provider is
\* called at most once; when run has ended the primary provider was called
\* exactly once and each observer was told exactly once, of a success when
\* run returned and of a failure when run raised.
C38_OneNotificationPerObserver ==
    \A r \in Reqs :
        LET l == log[r]
        IN  /\ \A o \in Observers : Cardinality(Notifications(l, o)) <= 1
            /\ Count(l, Ev("extract", 0, "primary")) <= 1
            /\ Count(l, Ev("extract", 0, "fallback")) <= 1
            /\ Cardinality(Pos(l, "run_return")) + Cardinality(Pos(l, "run_raise")) <= 1
            /\ RunEnded(l) =>
                  /\ Count(l, Ev("extract", 0, "primary")) = 1
                  /\ \A o \in Observers :
                        /\ Cardinality(Notifications(l, o)) = 1
                        /\ \A i \in Notifications(l, o) :
                              l[i].ev = IF Has(l, "run_return") THEN "on_success"
                                        ELSE "on_failure"
            /\ (Has(l, "on_success") \/ Has(l, "on_failure")) => RunEnded(l)

\* A run that raised after the primary provider's error, fallback off: the
\* last observer has its one notification, a failure.
C38_Witness ==
    \E r \in Reqs :
        /\ Has(log[r], "run_raise") /\ ~Has(log[r], "run_return")
        /\ ~Has(log[r], "on_success")
        /\ Cardinality(Notifications(log[r], NObs)) = 1
        /\ Ev("extract", 0, "fallback") \notin Range(log[r])

\* A run that returned the fallback's result.
C38_FallbackReturned ==
    \E r \in Reqs :
        /\ Has(log[r], "run_return") /\ Ev("extract", 0, "fallback") \in Range(log[r])
        /\ Cardinality(Pos(log[r], "on_success")) = NObs

\* The dicts of a response's "entities" list that Entity.model_validate
\* accepts, in order.
ValidItems(raw) ==
    SelectSeq(raw.entities, LAMBDA obj : obj.dict /\ ~ModelValidateRaises(obj))

\* A response that mixes valid entity payloads with invalid ones.
MixedAnswer(env) ==
    /\ env.api_key /\ env.http = "ok" /\ env.raw.json = "object"
    /\ ValidItems(env.raw) # <<>>
    /\ Len(ValidItems(env.raw)) < Len(env.raw.entities)

\* C36: when a cloud model's response holds an invalid entity or relation
\* payload among valid ones, extract does not fail: it returns the model's
\* valid items without the invalid one.
C36_CloudSkipsInvalidItems ==
    (CloudDone /\ MixedAnswer(call.args[3])) =>
        /\ call.state = "returned"
        /\ call.tokens # <<"fallback">>
        /\ call.ret[1].entities =
              [i \in DOMAIN ValidItems(call.args[3].raw) |->
                  ModelValidate(ValidItems(call.args[3].raw)[i], <<"uuid", 0, i>>)]

\* The local provider returned for an entry that has a text of its own.
LocalReturnedOnText ==
    /\ call.op = "extract" /\ call.key = "LocalLLMProvider"
    /\ call.state = "returned"
    /\ EntryText(call.args[1]) # <<>>

\* The text holds a capitalized word that is no stopword.
HasName(text) ==
    \E i \in DOMAIN text : Capitalized(text[i]) /\ Lower(text[i]) \notin STOPWORDS

\* C37: for an entry with text the local provider returns one entity per
\* surviving candidate name and exactly one MENTIONS relation per entity,
\* from the entry's id to that entity's id; a text with a capitalized word
\* that is no stopword gives at least one entity, and every entity has
\* system labels.
C37_LocalEntitiesAndMentions ==
    LocalReturnedOnText =>
        \A k \in DOMAIN call.ret :
            LET r == call.ret[k]
                text == EntryText(call.args[1])
            IN  /\ Len(r.entities) = Cardinality(Candidates(text))
                /\ {r.entities[i].name : i \in DOMAIN r.entities} = Candidates(text)
                /\ Len(r.relations) = Len(r.entities)
                /\ \A i \in DOMAIN r.entities :
                      /\ r.entities[i].system_labels # <<>>
                      /\ {j \in DOMAIN r.relations :
                             r.relations[j].target = r.entities[i].id} = {i}
                      /\ r.relations[i] =
                            Relation(call.args[1].id, r.entities[i].id, MENTIONS)
                /\ HasName(text) => Len(r.entities) >= 1

\* The local provider returned two entities and two relations for a text
\* of a stopword and a name.
C37_Witness ==
    /\ LocalReturnedOnText
    /\ EntryText(call.args[1]) = <<HE, BRIAN>>
    /\ Len(call.ret[1].entities) = 2
    /\ Len(call.ret[1].relations) = 2

\* C39: after any sequence of upsert, bulk_create, relation create, relation
\* bulk_create and delete, both ends of every edge in the store are nodes
\* of the store.
C39_NoDanglingEdges ==
    \A e \in edges : e.source \in DOMAIN nodes /\ e.target \in DOMAIN nodes

\* A delete has just taken a node that had edges, and edges between the
\* nodes that stay are still there.
C39_Witness ==
    /\ call.op = "delete" /\ call.ret = <<TRUE>>
    /\ call.key \notin DOMAIN nodes
    /\ edges # {}
    /\ Cardinality(DOMAIN nodes) = 2

\* A bulk_create of relations wrote one edge and none for a relation whose
\* target is not in the store.
C39_BulkSkipsUnmatched ==
    /\ call.op = "relation_bulk_create"
    /\ \E i \in DOMAIN call.ret : /\ call.ret[i].target \notin DOMAIN nodes
                                  /\ EdgeOf(call.ret[i]) \notin edges
    /\ \E i \in DOMAIN call.ret : EdgeOf(call.ret[i]) \in edges

\* The ids an entry's persistence may use as endpoints: the entry's id and
\* the ids of the entities of its own result.
OwnIds(r) ==
    {EntryId(r)} \cup {ResultOf(r, result[r]).entities[i].id :
                         i \in DOMAIN ResultOf(r, result[r]).entities}

\* C40: when the persistences of two entries interleave, the endpoints
\* mapped for an entry and the ends of every edge written are the entry's
\* id or the ids of entities of that entry's own result, never ids taken
\* from the other entry's entities.
C40_OwnEndpointsOnly ==
    /\ \A r \in Entries : \A i \in DOMAIN pending[r] :
          {pending[r][i].source, pending[r][i].target} \subseteq OwnIds(r)
    /\ \A e \in edges : \E r \in Entries : {e.source, e.target} \subseteq OwnIds(r)

\* Two persistences whose results name entities alike are both under way,
\* the first entry's relations mapped after the second entry's entities
\* were stored, and edges of both are written.
C40_Witness ==
    /\ result[1] = "llm" /\ result[2] = "llm"
    /\ pc[1] = "persist_relations" /\ pc[2] = "persist_relations"
    /\ \E e \in edges : e.source = EntryId(1)
    /\ \E e \in edges : e.source = EntryId(2)

\* The call of the self-hosted provider's extract has ended.
OllamaDone ==
    call.key = "OllamaProvider" /\ call.state \in {"returned", "raised"}

\* The attempts made so far, and the number N the settings allow.
Attempts == call.tokens
LastAttempt == Attempts[Len(Attempts)]

\* C33: the request loop of the self-hosted provider makes at most N
\* (max_retries) HTTP attempts, tries again only after a timeout, returns
\* the body of the first successful attempt, fails with an
\* ExtractionProviderError at once on any other HTTP error and after N
\* timeouts in a row, and always ends.
C33_BoundedRetries ==
    /\ [](call.key = "OllamaProvider" =>
            /\ Len(Attempts) <= call.args[3]
            /\ \A i \in 1..(Len(Attempts) - 1) : Attempts[i] = "timeout"
            /\ (Attempts # <<>> /\ LastAttempt = "ok") =>
                  (OllamaDone /\ Len(call.mapped) = 1)
            /\ (Attempts # <<>> /\ LastAttempt = "http_error") =>
                  (call.state = "raised" /\ call.raised = <<"ExtractionProviderError">>)
            /\ (OllamaDone /\ Len(call.mapped) = 0 /\ Len(Attempts) = call.args[3]
                  /\ \A i \in DOMAIN Attempts : Attempts[i] = "timeout") =>
                  call.raised = <<"ExtractionProviderError">>
            /\ (Len(call.mapped) = 1) => (Attempts # <<>> /\ LastAttempt = "ok"))
    /\ <>OllamaDone

\* The second of two attempts succeeded after the first had timed out, and
\* extract returned a result.
C33_Witness ==
    /\ call.key = "OllamaProvider" /\ call.state = "returned"
    /\ call.args[3] = 2
    /\ Attempts = <<"timeout", "ok">>

\* Every one of the attempts allowed timed out and the provider raised.
C33_AllTimedOut ==
    /\ OllamaDone /\ call.args[3] = MaxRetries
    /\ Attempts = [i \in 1..MaxRetries |-> "timeout"]
    /\ call.raised = <<"ExtractionProviderError">>

\* C34: every failure of the self-hosted provider's extract is an
\* ExtractionProviderError: for every entry and every answer of the server
\* extract returns a result or raises ExtractionProviderError, nothing
\* else.
C34_OnlyProviderErrors ==
    (OllamaDone /\ call.state = "raised") =>
        call.raised = <<"ExtractionProviderError">>

\* _parse_response was handed the text between the braces of the answer.
ParseReached ==
    /\ OllamaDone /\ Len(call.mapped) = 1
    /\ call.mapped[1].kind = "object" /\ ~call.mapped[1].null
    /\ call.mapped[1].response.some
    /\ call.mapped[1].response.v.braces

\* The text the parse was handed, and the payloads of it that the models
\* accept.
ParsedText == call.mapped[1].response.v
ValidEntities ==
    SelectSeq(ParsedText.entities, LAMBDA obj : obj.dict /\ ~ModelValidateRaises(obj))
ValidRelations ==
    SelectSeq(ParsedText.relations,
              LAMBDA obj : obj.source # <<>> /\ obj.target # <<>> /\ obj.relationType # <<>>)

\* What the parse returns holds every valid payload, in order, and no
\* other.
ValidKept ==
    call.state = "returned" =>
        /\ call.ret[1].entities =
              [i \in DOMAIN ValidEntities |-> ModelValidate(ValidEntities[i], <<"uuid", 0, i>>)]
        /\ call.ret[1].relations = ValidRelations

\* C35 as stated: the self-hosted provider's parse skips every invalid
\* entity or relation payload and keeps every valid one, in order, and it
\* fails with an ExtractionProviderError exactly when no entity and no
\* relation is left.
C35_FailsExactlyWhenEmpty ==
    ParseReached =>
        /\ ValidKept
        /\ call.state = "raised" <=> (ValidEntities = <<>> /\ ValidRelations = <<>>)
        /\ call.state = "raised" => call.raised = <<"ExtractionProviderError">>

\* C35 amended: the parse skips every invalid entity or relation payload
\* and keeps every valid one, in order; it fails with an
\* ExtractionProviderError exactly when the text is no JSON, when its
\* "entities" or "relations" is no list, or when no entity and no relation
\* is left.
C35_SkipsInvalidKeepsValid ==
    ParseReached =>
        /\ ValidKept
        /\ call.state = "raised" <=>
              \/ ParsedText.json # "object"
              \/ ~ParsedText.lists
              \/ (ValidEntities = <<>> /\ ValidRelations = <<>>)
        /\ call.state = "raised" => call.raised = <<"ExtractionProviderError">>

\* An answer of three entity payloads and two relation payloads, one of
\* each valid: the parse returned the one entity and the one relation.
C35_Witness ==
    /\ ParseReached /\ call.state = "returned"
    /\ Len(ParsedText.entities) = 3 /\ Len(ParsedText.relations) = 2
    /\ Len(call.ret[1].entities) = 1 /\ call.ret[1].entities[1].name = BRIAN
    /\ call.ret[1].relations = <<MentionsObj>>

\* An answer whose payloads are all invalid: the parse raised.
C35_NothingLeft ==
    /\ ParseReached /\ call.state = "raised"
    /\ ParsedText.json = "object" /\ ParsedText.lists
    /\ ParsedText.entities # <<>> /\ ParsedText.relations # <<>>
====
